---- MODULE Spec2Model ----
(***************************************************************************)
(* Mason: provider registry, provider selector, task compiler and the      *)
(* execution engine of the daemon (bin/lib/provider_registry.py,           *)
(* bin/provider_selector.py, bin/task_compiler.py, bin/mason_daemon.py).   *)
(*                                                                         *)
(* Numbers.  Timestamps are whole clock ticks; NoTime stands for Python's  *)
(* None.  A confidence weight is kept in halves (2 = 1.0) and a success    *)
(* rate in quarters (4 = 1.0, 2 = the neutral 0.5); priorities are powers  *)
(* of two.  With these values every float product of _score_providers is   *)
(* exact, so comparing the scores as fractions orders them as Python does. *)
(***************************************************************************)
EXTENDS Integers, Sequences, FiniteSets

\* ------------------------------------------------------------------ bounds
MaxTime == 2
MaxTried == 3
MaxOps == 3
MaxLines == 7
MaxCalls == 2
MaxFailures == 3
MaxCycles == 2
MaxRetry == 2
MaxStories == 1
MaxPackets == 2
MaxGenerates == 1
PollInterval == 2

\* --------------------------------------------------------------- constants
NoTime == -1
NoProvider == "none"
Names == {"A", "B", "L"}
UnknownName == "ghost"
ConfigOrder == <<"A", "B", "L">>
KnownAdapters == {"goose", "claude_cli", "ollama"}

VARIABLES
  definitions,        \* ProviderRegistry._definitions
  states,             \* ProviderRegistry._states
  rate_limit_cooldown,\* Config.rate_limit_cooldown
  now,                \* the host clock read by datetime.now()
  cached_stats,       \* ProviderSelector._cached_stats
  context,            \* the SelectionContext of the engine invocation
  has_packet,         \* whether _execute_task got a task_packet
  pc,                 \* position of the engine inside _execute_task
  current,            \* provider_defn.name of the iteration
  result,             \* the ArtifactBundle of the iteration
  sel,                \* inputs and outcome of the latest select call
  start,              \* the context as it was when the engine was entered
  runs,               \* provider.generate calls of the invocation, in order
  log,                \* events of the invocation that end or skip work
  last_op,            \* the latest registry operation and the state before it
  ops_done,           \* registry operations performed
  lookup,             \* what the latest get_definition / get_state returned
  story,              \* the Story handed to TaskCompiler.compile
  max_tasks,          \* TaskCompiler.max_tasks
  default_max_attempts, \* TaskCompiler.default_max_attempts
  heap,               \* the dict objects of the packets, by address
  issued,             \* uuid4 values drawn so far
  compiled,           \* the list returned by each compile call, with its time
  enrich,             \* the latest enrich_for_retry call and its outcome
  call,               \* the adapter and the course of one generate call
  returned,           \* the ArtifactBundle that call returned
  qa,                 \* start_run / complete_run calls of the invocation
  recording,          \* whether the invocation's history is being kept
  exhausted,          \* the attempts and providers_tried of the task_exhausted events
  task_packet,        \* the address of the dict _execute_task was given, 0 for none
  seen,               \* the packet as each generate call received it
  _running,           \* MasonDaemon._running
  at,                 \* position of the daemon's thread inside run
  work,               \* the loop variables of the cycle and of the engine call
  cycle,              \* number of cycles started
  closed,             \* the clients closed by _cleanup
  trace,              \* what the cycle under way has done so far, in order
  stop,               \* where the shutdown signal was handled, and what followed
  errors              \* number of exceptions caught by the poll loop

vars == <<definitions, states, rate_limit_cooldown, now, cached_stats, context,
          has_packet, pc, current, result, sel, start, runs, log, last_op,
          ops_done, lookup, story, max_tasks, default_max_attempts, heap,
          issued, compiled, enrich, call, returned, qa,
          recording, exhausted, task_packet, seen, _running, at, work, cycle, closed, trace, stop,
          errors>>

Range(s) == {s[i] : i \in 1..Len(s)}

\* ---------------------------------------------------------------- registry
InitialState == [available |-> TRUE, rate_limited_until |-> NoTime,
                 consecutive_failures |-> 0, last_success |-> NoTime,
                 last_failure |-> NoTime]

\* sorted(providers, key=priority) is stable: a provider is placed before the
\* first one whose priority is not smaller than its own.
RECURSIVE InsertByPriority(_, _, _)
InsertByPriority(defs, n, s) ==
  IF s = <<>> THEN <<n>>
  ELSE IF defs[Head(s)].priority < defs[n].priority
       THEN <<Head(s)>> \o InsertByPriority(defs, n, Tail(s))
       ELSE <<n>> \o s

RECURSIVE SortedByPriority(_, _)
SortedByPriority(defs, s) ==
  IF s = <<>> THEN <<>>
  ELSE InsertByPriority(defs, Head(s), SortedByPriority(defs, Tail(s)))

\* dict.get(name): the entry, or None for a name that is not a key.
NoDefinition == [name |-> NoProvider]
NoState == [name |-> NoProvider]

get_definition(defs, name) ==
  IF name \in DOMAIN defs THEN defs[name] ELSE NoDefinition

get_state(sts, name) ==
  IF name \in DOMAIN sts THEN sts[name] ELSE NoState

get_enabled_providers(defs) ==
  SortedByPriority(defs, SelectSeq(ConfigOrder, LAMBDA n : defs[n].enabled))

OnCooldown(st, t) == st.rate_limited_until # NoTime /\ st.rate_limited_until > t

\* A variant that looks at the available flag only.
IsAvailableFlagOnly(st, t) == st.available

IsAvailable(st, t) == ~OnCooldown(st, t) /\ st.available

get_available_providers(defs, sts, t) ==
  SelectSeq(get_enabled_providers(defs), LAMBDA n : IsAvailable(sts[n], t))

get_local_providers(defs, sts, t) ==
  SelectSeq(get_available_providers(defs, sts, t), LAMBDA n : defs[n].type = "local")

\* cooldown_seconds or self.config.rate_limit_cooldown: None and 0 are both falsy.
EffectiveCooldown(cooldown_seconds, configured) ==
  IF cooldown_seconds = NoTime \/ cooldown_seconds = 0 THEN configured
  ELSE cooldown_seconds

RateLimitedState(st, cooldown_seconds, configured, t) ==
  [st EXCEPT !.rate_limited_until = t + EffectiveCooldown(cooldown_seconds, configured),
             !.consecutive_failures = @ + 1]

mark_rate_limited(sts, name, cooldown_seconds, configured, t) ==
  IF name \notin DOMAIN sts THEN sts
  ELSE [sts EXCEPT ![name] = RateLimitedState(@, cooldown_seconds, configured, t)]

\* A variant that leaves a running cooldown in place.
SuccessStateKeepCooldown(st, t) ==
  [st EXCEPT !.last_success = t, !.consecutive_failures = 0]

SuccessState(st, t) ==
  [st EXCEPT !.last_success = t, !.consecutive_failures = 0,
             !.rate_limited_until = NoTime]

\* A variant that writes a state for whatever name it is given.
mark_success_any(sts, name, t) ==
  [n \in DOMAIN sts \cup {name} |->
     IF n = name THEN SuccessState(InitialState, t) ELSE sts[n]]

mark_success(sts, name, t) ==
  IF name \notin DOMAIN sts THEN sts
  ELSE [sts EXCEPT ![name] = SuccessState(@, t)]

\* A variant that does not stamp last_failure.
FailureStateNoStamp(st, t) == [st EXCEPT !.consecutive_failures = @ + 1]

FailureState(st, t) ==
  [st EXCEPT !.last_failure = t, !.consecutive_failures = @ + 1]

mark_failure(sts, name, is_rate_limit, configured, t) ==
  IF name \notin DOMAIN sts THEN sts
  ELSE LET failed == [sts EXCEPT ![name] = FailureState(@, t)]
       IN IF is_rate_limit
          THEN mark_rate_limited(failed, name, NoTime, configured, t)
          ELSE failed

\* A variant that clears the cooldowns and keeps the failure counters.
reset_cooldowns_only(sts) ==
  [n \in DOMAIN sts |-> [sts[n] EXCEPT !.rate_limited_until = NoTime]]

reset_cooldowns(sts) ==
  [n \in DOMAIN sts |-> [sts[n] EXCEPT !.rate_limited_until = NoTime,
                                        !.consecutive_failures = 0]]

\* ---------------------------------------------------------------- selector
HighLoadThreshold == 50
NeutralRate == 2

NoStats == [present |-> FALSE, total_runs |-> 0, success_rate |-> 0]
Stats(runs_, rate) == [present |-> TRUE, total_runs |-> runs_, success_rate |-> rate]
EmptyStats == [n \in Names |-> NoStats]

\* QAQueueClient.is_high_load: get_stats raises, or total_active > threshold.
is_high_load(load, threshold) == load.total_active > threshold

\* A variant that drops the cache when the refresh fails.
RefreshedStatsOrEmpty(cache, response) ==
  IF response.ok THEN response.stats ELSE EmptyStats

\* A variant that keeps a cache it already has (a cache honoured until it expires).
RefreshedStatsKeepCache(cache, response) ==
  IF response.ok /\ cache = [n \in DOMAIN cache |-> [present |-> FALSE, total_runs |-> 0, success_rate |-> 0]]
  THEN response.stats ELSE cache

\* _refresh_stats: the served document replaces the cache; on an exception the
\* previous cache stays.
RefreshedStats(cache, response) == IF response.ok THEN response.stats ELSE cache

\* A variant that trusts the served rate of a provider that has no runs yet.
SuccessRateAnyRuns(cache, n) ==
  IF cache[n].present THEN cache[n].success_rate ELSE 2

SuccessRate(cache, n) ==
  IF cache[n].present /\ cache[n].total_runs > 0 THEN cache[n].success_rate
  ELSE NeutralRate

\* (1.0 / priority) * success_rate * confidence_weight, as the fraction num/den
\* (in eighths: success_rate is in quarters, confidence_weight in halves).
Score(defs, cache, n) ==
  [num |-> SuccessRate(cache, n) * defs[n].confidence_weight,
   den |-> defs[n].priority]

ScoreGreater(a, b) == a.num * b.den > b.num * a.den

\* scored.sort(key=score, reverse=True) is stable: a provider is placed before
\* the first one whose score is not greater than its own.
RECURSIVE InsertByScore(_, _, _, _)
InsertByScore(defs, cache, n, s) ==
  IF s = <<>> THEN <<n>>
  ELSE IF ScoreGreater(Score(defs, cache, Head(s)), Score(defs, cache, n))
       THEN <<Head(s)>> \o InsertByScore(defs, cache, n, Tail(s))
       ELSE <<n>> \o s

RECURSIVE SortedByScore(_, _, _)
SortedByScore(defs, cache, s) ==
  IF s = <<>> THEN <<>>
  ELSE InsertByScore(defs, cache, Head(s), SortedByScore(defs, cache, Tail(s)))

\* A variant that falls back to the whole list as soon as one provider was tried.
CandidatesFallbackEarly(available, tried) ==
  IF tried # <<>> THEN available
  ELSE SelectSeq(available, LAMBDA n : n \notin Range(tried))

\* A variant that never excludes the providers already tried.
CandidatesAll(available, tried) == available

\* Lines 61-74: the untried available providers, or all of them when none is left.
Candidates(available, tried) ==
  LET untried == SelectSeq(available, LAMBDA n : n \notin Range(tried))
  IN IF untried = <<>> THEN available ELSE untried

\* A variant that never prefers local providers.
LoadFilteredNever(defs, sts, candidates, load, t) == candidates

\* Lines 80-91: under high load the candidates that are local, if there are any.
LoadFiltered(defs, sts, candidates, load, t) ==
  IF load.ok /\ is_high_load(load, HighLoadThreshold)
  THEN LET local == get_local_providers(defs, sts, t)
           kept == SelectSeq(candidates, LAMBDA n : n \in Range(local))
       IN IF local # <<>> /\ kept # <<>> THEN kept ELSE candidates
  ELSE candidates

\* ProviderSelector.select.  t1 is the clock at get_available_providers, t2 the
\* clock at get_local_providers (after the load request), cache the statistics
\* after _refresh_stats.
select(defs, sts, tried, t1, t2, load, cache) ==
  LET available == get_available_providers(defs, sts, t1)
      candidates == Candidates(available, tried)
  IN IF candidates = <<>> THEN NoProvider
     ELSE Head(SortedByScore(defs, cache,
                             LoadFiltered(defs, sts, candidates, load, t2)))

\* report_result
report_result(sts, name, success, is_rate_limit, configured, t) ==
  IF success THEN mark_success(sts, name, t)
  ELSE mark_failure(sts, name, is_rate_limit, configured, t)

\* ------------------------------------------------------- provider documents
Definition(priority, type, adapter, confidence_weight, enabled) ==
  [priority |-> priority, type |-> type, adapter |-> adapter,
   confidence_weight |-> confidence_weight, enabled |-> enabled]

\* Three providers.json documents: every adapter in use; one provider disabled;
\* one provider whose adapter _init_providers does not know.
ProviderDocs ==
  { [n \in Names |->
       CASE n = "A" -> Definition(1, "api", "claude_cli", 2, TRUE)
         [] n = "B" -> Definition(2, "cli", "goose", 2, TRUE)
         [] n = "L" -> Definition(4, "local", "ollama", 1, TRUE)],
    [n \in Names |->
       CASE n = "A" -> Definition(1, "api", "claude_cli", 2, TRUE)
         [] n = "B" -> Definition(1, "cli", "goose", 2, FALSE)
         [] n = "L" -> Definition(2, "local", "ollama", 2, TRUE)],
    [n \in Names |->
       CASE n = "A" -> Definition(2, "api", "claude_cli", 2, TRUE)
         [] n = "B" -> Definition(1, "cli", "custom", 1, TRUE)
         [] n = "L" -> Definition(4, "local", "ollama", 2, FALSE)] }

\* ProviderRegistry._load_providers: one fresh state per definition.
LoadedStates == [n \in Names |-> InitialState]

CooldownChoices == {0, 2}

\* ------------------------------------------------------------ idle values
NoContext == [attempt |-> 0, max_attempts |-> 0, providers_tried |-> <<>>]
NoResult == [execution_status |-> "none", is_rate_limit |-> FALSE]
NoLoad == [ok |-> FALSE, total_active |-> 0]
NoResponse == [ok |-> FALSE, stats |-> EmptyStats]
NoSelection == [called |-> FALSE, tried |-> <<>>, t1 |-> 0, t2 |-> 0,
                load |-> NoLoad, response |-> NoResponse, provider |-> NoProvider]
\* complete_ok: whether the complete_run of the iteration under way returned.
NoCalls == [starts |-> 0, failed_start |-> FALSE, completes |-> <<>>,
            complete_ok |-> TRUE]
NoOp == [op |-> "none", name |-> NoProvider, is_rate_limit |-> FALSE,
         cooldown |-> NoTime, at |-> 0, before |-> LoadedStates]
NoLookup == [name |-> NoProvider, definition |-> NoDefinition, state |-> NoState]

EngineIdle ==
  /\ context = NoContext
  /\ has_packet = FALSE
  /\ pc = "idle"
  /\ current = NoProvider
  /\ result = NoResult
  /\ start = NoContext
  /\ runs = <<>>
  /\ log = <<>>
  /\ qa = NoCalls
  /\ exhausted = <<>>
  /\ task_packet = 0
  /\ seen = <<>>

EngineVars == <<context, has_packet, pc, current, result, start, runs, log, qa,
                exhausted, task_packet, seen>>

NoStory == [id |-> 0, title |-> "", narrative |-> "", acceptance_criteria |-> <<>>,
            epic_id |-> NoTime, priority |-> 0, est_points |-> NoTime]
NoEnrich == [called |-> FALSE, p |-> 0, guidance |-> <<>>, attempt |-> 0,
             result |-> 0, before |-> NoStory]

CompilerIdle ==
  /\ story = NoStory
  /\ max_tasks = 0
  /\ default_max_attempts = 0
  /\ heap = <<>>
  /\ issued = 0
  /\ compiled = <<>>
  /\ enrich = NoEnrich

CompilerVars == <<story, max_tasks, default_max_attempts, heap, issued, compiled,
                  enrich>>

NoCall == [adapter |-> "none", has_ollama |-> TRUE, path |-> "none",
           returncode |-> 0, output |-> <<>>, error |-> <<>>]

AdapterIdle ==
  /\ call = NoCall
  /\ returned = NoResult

AdapterVars == <<call, returned>>

\* The daemon before run is called.
NoTask == [phase |-> "none", story |-> 0, index |-> 0, attempt |-> 0,
           max_attempts |-> 0]

NoWork == [retry |-> <<>>, stories |-> <<>>, story |-> 0, packets |-> <<>>,
           task |-> NoTask, ticks |-> 0]

NoTrace == [events |-> <<>>, fetched |-> 0, polled |-> FALSE,
            polled_running |-> FALSE]

NoStop == [at |-> "none", ticks |-> 0, cycles |-> 0, started |-> 0,
           generates |-> 0]

DaemonIdle ==
  /\ _running = FALSE
  /\ at = "init"
  /\ work = NoWork
  /\ cycle = 0
  /\ closed = {}
  /\ trace = NoTrace
  /\ stop = NoStop
  /\ errors = 0

DaemonVars == <<_running, at, work, cycle, closed, trace, stop, errors>>

\* ------------------------------------------------- registry, called directly
\* The registry's public operations in any order, on known and unknown names,
\* with the clock advancing in between.
InitRegistry ==
  /\ definitions \in {d \in ProviderDocs : ~d["B"].enabled}
  /\ states = LoadedStates
  /\ rate_limit_cooldown \in CooldownChoices
  /\ now = 0
  /\ cached_stats = EmptyStats
  /\ sel = NoSelection
  /\ last_op = NoOp
  /\ ops_done = 0
  /\ lookup = NoLookup
  /\ EngineIdle
  /\ CompilerIdle
  /\ AdapterIdle
  /\ recording = TRUE
  /\ DaemonIdle

OpNames == {"A", "B", UnknownName}
CooldownArgs == {NoTime, 0, 1}

Recorded(op, name, is_rate_limit, cooldown) ==
  /\ ops_done < MaxOps
  /\ ops_done' = ops_done + 1
  /\ last_op' = [op |-> op, name |-> name, is_rate_limit |-> is_rate_limit,
                 cooldown |-> cooldown, at |-> now, before |-> states]
  /\ UNCHANGED <<definitions, rate_limit_cooldown, now, cached_stats, sel>>
  /\ UNCHANGED EngineVars
  /\ UNCHANGED CompilerVars
  /\ UNCHANGED AdapterVars
  /\ UNCHANGED <<recording, DaemonVars>>

Called(op, name, is_rate_limit, cooldown) ==
  /\ Recorded(op, name, is_rate_limit, cooldown)
  /\ UNCHANGED lookup

RegMarkSuccess ==
  \E name \in OpNames :
    /\ states' = mark_success(states, name, now)
    /\ Called("mark_success", name, FALSE, NoTime)

RegMarkFailure ==
  \E name \in OpNames, is_rate_limit \in BOOLEAN :
    /\ states' = mark_failure(states, name, is_rate_limit, rate_limit_cooldown, now)
    /\ Called("mark_failure", name, is_rate_limit, NoTime)

RegMarkRateLimited ==
  \E name \in OpNames, cooldown_seconds \in CooldownArgs :
    /\ states' = mark_rate_limited(states, name, cooldown_seconds,
                                   rate_limit_cooldown, now)
    /\ Called("mark_rate_limited", name, FALSE, cooldown_seconds)

RegResetCooldowns ==
  /\ states' = reset_cooldowns(states)
  /\ Called("reset_cooldowns", NoProvider, FALSE, NoTime)

\* get_state(name).available = value: the state object is handed out mutable.
RegSetAvailable ==
  \E name \in OpNames \ {UnknownName}, value \in BOOLEAN :
    /\ states' = [states EXCEPT ![name].available = value]
    /\ Called("set_available", name, FALSE, NoTime)

\* get_definition(name) and get_state(name), read-only.
RegLookup ==
  \E name \in OpNames :
    /\ lookup' = [name |-> name, definition |-> get_definition(definitions, name),
                  state |-> get_state(states, name)]
    /\ states' = states
    /\ Recorded("lookup", name, FALSE, NoTime)

Tick ==
  /\ now < MaxTime
  /\ now' = now + 1
  /\ UNCHANGED <<definitions, states, rate_limit_cooldown, cached_stats, sel,
                 last_op, ops_done, lookup>>
  /\ UNCHANGED EngineVars
  /\ UNCHANGED CompilerVars
  /\ UNCHANGED AdapterVars
  /\ UNCHANGED <<recording, DaemonVars>>

NextRegistry ==
  \/ RegMarkSuccess
  \/ RegMarkFailure
  \/ RegMarkRateLimited
  \/ RegResetCooldowns
  \/ RegSetAvailable
  \/ RegLookup
  \/ Tick

SpecRegistry == InitRegistry /\ [][NextRegistry]_vars

\* ------------------------------------------------- selector, called directly
\* What the QA service may answer: the load request fails or reports a number
\* of active tasks; the statistics request fails or serves a document.
LoadSignals == {NoLoad, [ok |-> TRUE, total_active |-> HighLoadThreshold],
                [ok |-> TRUE, total_active |-> HighLoadThreshold + 1]}

StatsDocs ==
  { [n \in Names |->
       CASE n = "A" -> Stats(10, 1) [] n = "B" -> Stats(10, 4) [] n = "L" -> Stats(0, 4)],
    [n \in Names |->
       CASE n = "A" -> Stats(4, 4) [] n = "B" -> NoStats [] n = "L" -> Stats(8, 3)] }

CachedDocs ==
  { EmptyStats,
    [n \in Names |->
       CASE n = "A" -> Stats(5, 0) [] n = "B" -> Stats(5, 2) [] n = "L" -> Stats(5, 4)] }

StatsResponses == {NoResponse} \cup {[ok |-> TRUE, stats |-> d] : d \in StatsDocs}

TriedLists == {<<>>, <<"A">>, <<"L">>, <<"B", "A">>, <<"A", "B", "L">>}

\* One call of select: the clock is read at t1 = now and again at t2, after the
\* load request; the refreshed statistics stay in the cache.
SelectCall(tried, load, response, t2) ==
  /\ cached_stats' = RefreshedStats(cached_stats, response)
  /\ now' = t2

Selected(tried, load, response, t2) ==
  select(definitions, states, tried, now, t2, load,
         RefreshedStats(cached_stats, response))

\* Any definitions, any availability of each provider, any cache.
SelectorDocs ==
  { d \in [Names -> [priority : {1, 2, 4}, type : {"api", "cli", "local"},
                     adapter : KnownAdapters, confidence_weight : {1, 2},
                     enabled : {TRUE}]] :
      /\ d["A"].priority \in {1, 2} /\ d["A"].type \in {"api", "local"}
      /\ d["A"].adapter = "claude_cli" /\ d["A"].confidence_weight = 2
      /\ d["B"].priority \in {1, 2} /\ d["B"].type = "cli"
      /\ d["B"].adapter = "goose"
      /\ d["L"].priority \in {1, 4} /\ d["L"].type = "local"
      /\ d["L"].adapter = "ollama"
      /\ d["L"].confidence_weight = 2 }

SelectorStatuses == {"ok", "disabled", "flagged", "expired", "expiring", "cooling"}

StatusState(status, t) ==
  [InitialState EXCEPT
     !.available = (status # "flagged"),
     !.rate_limited_until = CASE status = "expired" -> t
                              [] status = "expiring" -> t + 1
                              [] status = "cooling" -> t + 2
                              [] OTHER -> NoTime]

InitSelector ==
  /\ now = 1
  /\ \E d \in SelectorDocs, status \in [Names -> SelectorStatuses] :
       /\ definitions = [n \in Names |-> [d[n] EXCEPT !.enabled = (status[n] # "disabled")]]
       /\ states = [n \in Names |-> StatusState(status[n], now)]
  /\ rate_limit_cooldown = 2
  /\ cached_stats \in CachedDocs
  /\ sel = NoSelection
  /\ last_op = NoOp
  /\ ops_done = 0
  /\ lookup = NoLookup
  /\ EngineIdle
  /\ CompilerIdle
  /\ AdapterIdle
  /\ recording = TRUE
  /\ DaemonIdle

SelectorSelect ==
  /\ ~sel.called
  /\ \E tried \in TriedLists, load \in LoadSignals, response \in StatsResponses,
        t2 \in {now, now + 1} :
       /\ SelectCall(tried, load, response, t2)
       /\ sel' = [called |-> TRUE, tried |-> tried, t1 |-> now, t2 |-> t2,
                  load |-> load, response |-> response,
                  provider |-> Selected(tried, load, response, t2)]
  /\ UNCHANGED <<definitions, states, rate_limit_cooldown, last_op, ops_done,
                 lookup>>
  /\ UNCHANGED EngineVars
  /\ UNCHANGED CompilerVars
  /\ UNCHANGED AdapterVars
  /\ UNCHANGED <<recording, DaemonVars>>

NextSelector == SelectorSelect

SpecSelector == InitSelector /\ [][NextSelector]_vars

\* ------------------------------------------------------------------ engine
\* MasonDaemon._providers after _init_providers: an adapter per enabled
\* provider whose adapter name is one of the known classes.
Initialized(defs, n) == defs[n].enabled /\ defs[n].adapter \in KnownAdapters

\* What generate of the three adapters returns.
Bundles ==
  { [execution_status |-> "success", is_rate_limit |-> FALSE],
    [execution_status |-> "failure", is_rate_limit |-> FALSE],
    [execution_status |-> "provider_failure", is_rate_limit |-> TRUE],
    [execution_status |-> "provider_failure", is_rate_limit |-> FALSE] }

MaxAttemptsChoices == {0, 1, 2}

\* Records of the QA retry queue (attempt, max_attempts, providers_tried).
RetryRecords ==
  { [attempt |-> 0, max_attempts |-> 2, providers_tried |-> <<>>],
    [attempt |-> 1, max_attempts |-> 2, providers_tried |-> <<"A">>],
    [attempt |-> 2, max_attempts |-> 2, providers_tried |-> <<"A", "B">>] }

\* A variant that counts an attempt for every bundle that is not a success.
AttemptAfterAnyFailure(status, attempt) ==
  IF status = "success" THEN attempt ELSE attempt + 1

\* Lines 251-287: what the bundle does to the context.
AttemptAfter(status, attempt) ==
  IF status \in {"success", "provider_failure"} THEN attempt ELSE attempt + 1

\* The invocation's history: the events logged, the generate calls made and
\* the QA calls issued.  When no history is kept these stay as they are, and
\* providers_tried, which the code reads through `in` only (provider_selector
\* line 64), keeps one entry per name.
Logged(events) == IF recording THEN log \o events ELSE log
Ran(run) == IF recording THEN Append(runs, run) ELSE runs
Asked(calls) == IF recording THEN calls ELSE qa

\* Lines 289-294: the task_exhausted event's attempts and providers_tried.
Exhausted(ctx) ==
  IF recording
  THEN Append(exhausted, [attempts |-> ctx.attempt,
                          providers_tried |-> ctx.providers_tried])
  ELSE exhausted

\* A variant in which the success branch leaves the loop by `break`.
ReturnEventsFallThrough(status) ==
  IF status = "success" THEN <<"task_succeeded", "task_exhausted">> ELSE <<>>

\* Lines 251-258 and 289-294: what is logged on the way out when a bundle has
\* been handled: success returns from inside the loop.
ReturnEvents(status) ==
  IF status = "success" THEN <<"task_succeeded">> ELSE <<>>

\* context.providers_tried.append(name)
Tried(tried, name) ==
  IF recording \/ name \notin Range(tried) THEN Append(tried, name) ELSE tried

\* A variant that appends the name whatever the bundle says.
TriedAfterAlways(status, tried, name) == Tried(tried, name)

TriedAfter(status, tried, name) ==
  IF status = "success" THEN tried ELSE Tried(tried, name)

\* A variant that drops the bundle's is_rate_limit on the way to the registry.
StatesAfterNoRateLimit(sts, bundle, name, configured, t) ==
  report_result(sts, name, bundle.execution_status = "success", FALSE, configured, t)

StatesAfter(sts, bundle, name, configured, t) ==
  CASE bundle.execution_status = "success" ->
         report_result(sts, name, TRUE, FALSE, configured, t)
    [] bundle.execution_status = "provider_failure" ->
         report_result(sts, name, FALSE, bundle.is_rate_limit, configured, t)
    [] OTHER ->
         report_result(sts, name, FALSE, FALSE, configured, t)

\* Without a history the failure counters, which nothing reads, still grow;
\* the invocation is followed until one of them reaches MaxFailures.
AtBound == \E n \in Names : states[n].consecutive_failures >= MaxFailures

Init ==
  /\ definitions \in ProviderDocs
  /\ states = LoadedStates
  /\ rate_limit_cooldown \in CooldownChoices
  /\ now = 0
  /\ cached_stats = EmptyStats
  /\ sel = NoSelection
  /\ last_op = NoOp
  /\ ops_done = 0
  /\ lookup = NoLookup
  /\ EngineIdle
  /\ CompilerIdle
  /\ AdapterIdle
  /\ recording = TRUE
  /\ DaemonIdle

Static == <<definitions, rate_limit_cooldown, sel, last_op, ops_done, lookup,
           story, max_tasks, default_max_attempts, heap, issued, compiled, enrich,
           call, returned, recording, task_packet, DaemonVars>>

Enter(ctx, packet) ==
  /\ pc = "idle"
  /\ context' = ctx
  /\ start' = ctx
  /\ has_packet' = packet
  /\ runs' = <<>>
  /\ log' = <<>>
  /\ qa' = NoCalls
  /\ exhausted' = <<>>
  /\ seen' = <<>>
  /\ current' = NoProvider
  /\ result' = NoResult
  /\ pc' = "loop"
  /\ UNCHANGED <<states, now, cached_stats>>
  /\ UNCHANGED Static

\* _process_new_stories, lines 173-182: a fresh context for a compiled packet.
StartNewTask ==
  \E m \in MaxAttemptsChoices :
    Enter([attempt |-> 0, max_attempts |-> m, providers_tried |-> <<>>], TRUE)

\* _process_retry_queue, lines 126-135: the context of a retry record, no packet.
StartRetryTask ==
  \E r \in RetryRecords : Enter(r, FALSE)

\* A variant of the loop's condition that lets one more pass through.
AttemptingUpTo(ctx) == ctx.attempt <= ctx.max_attempts

\* Line 191: `while context.attempt < context.max_attempts`.
Attempting(ctx) == ctx.attempt < ctx.max_attempts

\* Line 191 false: the loop is left and task_exhausted is logged.
EngineExhausted ==
  /\ pc = "loop"
  /\ ~Attempting(context)
  /\ log' = Logged(<<"task_exhausted">>)
  /\ exhausted' = Exhausted(context)
  /\ pc' = "done"
  /\ UNCHANGED <<states, now, cached_stats, context, has_packet, current, result,
                 start, runs, qa>>
  /\ UNCHANGED <<Static, seen>>

\* Lines 191-196: select; none ends the loop.
EngineSelect ==
  /\ pc = "loop"
  /\ Attempting(context)
  /\ recording => Len(context.providers_tried) < MaxTried
  /\ ~recording => ~AtBound
  /\ \E load \in LoadSignals, response \in StatsResponses,
        t2 \in {t \in {now, now + 1} : t <= MaxTime} :
       /\ SelectCall(context.providers_tried, load, response, t2)
       /\ LET p == Selected(context.providers_tried, load, response, t2)
          IN /\ current' = p
             /\ IF p = NoProvider
                THEN /\ log' = Logged(<<"no_provider_available", "task_exhausted">>)
                     /\ exhausted' = Exhausted(context)
                     /\ pc' = "done"
                ELSE /\ log' = log
                     /\ exhausted' = exhausted
                     /\ pc' = "lookup"
  /\ qa' = Asked([qa EXCEPT !.complete_ok = TRUE])
  /\ UNCHANGED <<states, context, has_packet, result, start, runs>>
  /\ UNCHANGED <<Static, seen>>

\* A variant that counts a skipped provider as an attempt.
AfterSkipCounted(ctx, name) ==
  [ctx EXCEPT !.providers_tried = Tried(@, name), !.attempt = @ + 1]

\* Lines 204-205: the context after a provider without adapter is skipped.
AfterSkip(ctx, name) ==
  [ctx EXCEPT !.providers_tried = Tried(@, name)]

\* Lines 198-205: no adapter for the name: it is appended and the loop goes on.
EngineLookup ==
  /\ pc = "lookup"
  /\ IF Initialized(definitions, current)
     THEN /\ pc' = "start_run"
          /\ UNCHANGED <<context, log>>
     ELSE /\ context' = AfterSkip(context, current)
          /\ log' = Logged(<<"provider_not_initialized">>)
          /\ pc' = "loop"
  /\ UNCHANGED <<states, now, cached_stats, has_packet, current, result, start,
                 runs, qa, exhausted>>
  /\ UNCHANGED <<Static, seen>>

\* A variant without the check of the packet at line 227.
AfterStartRunAnyPacket(ok, packet) == IF ok THEN "generate" ELSE "done"

\* A variant that goes on after start_run raised.
AfterStartRunAnyOutcome(ok, packet) == IF packet THEN "generate" ELSE "done"

\* Lines 208-233: where the engine goes after start_run: on to generate when
\* the call returned and there is a packet, out of the loop otherwise.
AfterStartRun(ok, packet) == IF ok /\ packet THEN "generate" ELSE "done"

\* Lines 207-233: start_run raises, or the run is started; without a packet
\* the engine leaves the loop before generate.
EngineStartRun ==
  /\ pc = "start_run"
  /\ \E ok \in BOOLEAN :
       /\ pc' = AfterStartRun(ok, has_packet)
       /\ IF ~ok
          THEN /\ qa' = Asked([qa EXCEPT !.failed_start = TRUE])
               /\ log' = Logged(<<"start_run_failed", "task_exhausted">>)
               /\ exhausted' = Exhausted(context)
          ELSE /\ qa' = Asked([qa EXCEPT !.starts = @ + 1])
               /\ IF has_packet
                  THEN UNCHANGED <<log, exhausted>>
                  ELSE /\ log' = Logged(<<"no_task_packet_for_retry", "task_exhausted">>)
                       /\ exhausted' = Exhausted(context)
  /\ UNCHANGED <<states, now, cached_stats, context, has_packet, current, result,
                 start, runs>>
  /\ UNCHANGED <<Static, seen>>

\* A variant that hands generate a packet enriched with the attempt count.
SentEnriched(h, p, attempt) ==
  LET packet == [g \in DOMAIN h[p] |-> h[h[p][g]]]
  IN [packet EXCEPT !.execution.current_attempt = attempt]

\* Line 228: the argument of generate is the dict the engine was given, read
\* here through its seven groups.
Sent(h, p, attempt) == [g \in DOMAIN h[p] |-> h[h[p][g]]]

\* Line 228: provider.generate(task_packet).
EngineGenerate ==
  /\ pc = "generate"
  /\ seen' = IF recording /\ task_packet # 0
             THEN Append(seen, Sent(heap, task_packet, context.attempt))
             ELSE seen
  /\ \E bundle \in Bundles :
       /\ result' = bundle
       /\ runs' = Ran([provider |-> current,
                        execution_status |-> bundle.execution_status,
                        is_rate_limit |-> bundle.is_rate_limit])
  /\ pc' = "complete"
  /\ UNCHANGED <<states, now, cached_stats, context, has_packet, current, start,
                 log, qa, exhausted>>
  /\ UNCHANGED Static

\* Lines 235-248: complete_run for the run_id of this iteration's start_run;
\* an exception is logged and nothing else.
EngineCompleteRun ==
  /\ pc = "complete"
  /\ \E ok \in BOOLEAN :
       /\ qa' = Asked([qa EXCEPT !.completes = Append(@, qa.starts),
                                 !.complete_ok = ok])
       /\ pc' = "handle"
  /\ UNCHANGED <<states, now, cached_stats, context, has_packet, current, result,
                 start, runs, log, exhausted>>
  /\ UNCHANGED <<Static, seen>>

\* A variant that takes a bundle whose complete_run raised for a provider
\* failure.
HandledIfCompleted(bundle, completed) ==
  IF completed THEN bundle ELSE [bundle EXCEPT !.execution_status = "provider_failure"]

\* Lines 247-251: the except clause logs complete_run_failed; what is handled
\* from line 251 on is `result` as generate returned it.
Handled(bundle, completed) == bundle

\* Lines 250-287: report to the registry, extend providers_tried, count the
\* attempt; success returns.
EngineHandleResult ==
  /\ pc = "handle"
  /\ LET bundle == Handled(result, qa.complete_ok)
     IN /\ states' = StatesAfter(states, bundle, current, rate_limit_cooldown, now)
        /\ context' = [context EXCEPT
                         !.providers_tried = TriedAfter(bundle.execution_status, @, current),
                         !.attempt = AttemptAfter(bundle.execution_status, @)]
        /\ log' = Logged(ReturnEvents(bundle.execution_status))
        /\ exhausted' =
             IF "task_exhausted" \in Range(ReturnEvents(bundle.execution_status))
             THEN Exhausted(context')
             ELSE exhausted
        /\ pc' = IF bundle.execution_status = "success" THEN "done" ELSE "loop"
  /\ UNCHANGED <<now, cached_stats, has_packet, current, result, start, runs, qa>>
  /\ UNCHANGED <<Static, seen>>

Next ==
  \/ StartNewTask
  \/ StartRetryTask
  \/ EngineExhausted
  \/ EngineSelect
  \/ EngineLookup
  \/ EngineStartRun
  \/ EngineGenerate
  \/ EngineCompleteRun
  \/ EngineHandleResult
  \/ Tick

Spec == Init /\ [][Next]_vars

\* The same invocation followed without a history, so that a loop of the
\* engine is a cycle of states.  The engine is one thread: a step it can take
\* is taken (every call it makes returns, generate within its timeout).
InitLive ==
  /\ definitions \in ProviderDocs
  /\ states = LoadedStates
  /\ rate_limit_cooldown \in CooldownChoices
  /\ now = 0
  /\ cached_stats = EmptyStats
  /\ sel = NoSelection
  /\ last_op = NoOp
  /\ ops_done = 0
  /\ lookup = NoLookup
  /\ EngineIdle
  /\ CompilerIdle
  /\ AdapterIdle
  /\ recording = FALSE
  /\ DaemonIdle

EngineStep ==
  \/ StartNewTask
  \/ StartRetryTask
  \/ EngineExhausted
  \/ EngineSelect
  \/ EngineLookup
  \/ EngineStartRun
  \/ EngineGenerate
  \/ EngineCompleteRun
  \/ EngineHandleResult

SpecLive == InitLive /\ [][Next]_vars /\ WF_vars(EngineStep)

\* ----------------------------------------------------------- task compiler
\* A text is a sequence of characters, a character a one-character string;
\* the two bullets outside ASCII are written by their code points.
Newline == "\n"
Whitespace == {" ", "\t", Newline}
Bullets == {"-", "*", "U+2022", "U+2713"}
Digits == {"0", "1", "2", "3", "4", "5", "6", "7", "8", "9"}

Min(a, b) == IF a < b THEN a ELSE b

\* str.strip()
RECURSIVE LStrip(_)
LStrip(s) == IF s # <<>> /\ Head(s) \in Whitespace THEN LStrip(Tail(s)) ELSE s

RECURSIVE RStrip(_)
RStrip(s) ==
  IF s # <<>> /\ s[Len(s)] \in Whitespace THEN RStrip(SubSeq(s, 1, Len(s) - 1)) ELSE s

Strip(s) == RStrip(LStrip(s))

\* The position of the first c in s, 0 when there is none.
FirstIndex(s, c) ==
  IF \E i \in 1..Len(s) : s[i] = c
  THEN CHOOSE i \in 1..Len(s) : s[i] = c /\ \A j \in 1..(i - 1) : s[j] # c
  ELSE 0

\* str.split(sep)
RECURSIVE Split(_, _)
Split(s, sep) ==
  IF FirstIndex(s, sep) = 0 THEN <<s>>
  ELSE <<SubSeq(s, 1, FirstIndex(s, sep) - 1)>>
         \o Split(SubSeq(s, FirstIndex(s, sep) + 1, Len(s)), sep)

\* "\n".join(lines)
RECURSIVE Join(_)
Join(lines) ==
  IF lines = <<>> THEN <<>>
  ELSE IF Len(lines) = 1 THEN lines[1]
  ELSE lines[1] \o <<Newline>> \o Join(Tail(lines))

\* if line.startswith(('-', '*', ...)): line = line[1:].strip()
StripBullet(line) ==
  IF line # <<>> /\ Head(line) \in Bullets THEN Strip(Tail(line)) ELSE line

\* if line and line[0].isdigit() and '.' in line[:3]:
\*     line = line.split('.', 1)[1].strip()
StripNumber(line) ==
  IF /\ line # <<>>
     /\ Head(line) \in Digits
     /\ FirstIndex(SubSeq(line, 1, Min(3, Len(line))), ".") # 0
  THEN Strip(SubSeq(line, FirstIndex(line, ".") + 1, Len(line)))
  ELSE line

ParseLine(line) == StripNumber(StripBullet(Strip(line)))

_parse_acceptance_criteria(criteria_text) ==
  IF criteria_text = <<>> THEN <<>>
  ELSE LET lines == Split(Strip(criteria_text), Newline)
       IN SelectSeq([i \in 1..Len(lines) |-> ParseLine(lines[i])],
                    LAMBDA line : line # <<>>)

_infer_file_scope(st) == <<>>

_estimate_complexity(st) ==
  IF st.est_points = NoTime THEN "medium"
  ELSE IF st.est_points <= 2 THEN "low"
  ELSE IF st.est_points <= 5 THEN "medium"
  ELSE "high"

\* title = story.title, or f"{story.title} (Part {task_index + 1})"
Title(st, task_index) ==
  IF task_index > 0 THEN <<st.title, " (Part ", task_index + 1, ")">>
  ELSE <<st.title>>

\* A variant that takes the story id from the task id.
IdentityGroupFreshStory(st, task_id) ==
  [task_id |-> task_id, story_id |-> task_id, epic_id |-> st.epic_id]

IdentityGroup(st, task_id) ==
  [task_id |-> task_id, story_id |-> st.id, epic_id |-> st.epic_id]

GoalGroup(st, criteria, task_index) ==
  [title |-> Title(st, task_index), description |-> st.narrative,
   success_criteria |-> criteria]

ConstraintsGroup(st) ==
  [file_scope |-> _infer_file_scope(st), style_rules |-> <<>>, forbidden |-> <<>>]

InputsGroup ==
  [context_files |-> <<>>, dependencies |-> <<>>, retry_guidance |-> <<>>]

\* A variant whose packets start at attempt 1.
ExecutionGroupStarted(dma) ==
  [max_attempts |-> dma, current_attempt |-> 1, timeout_seconds |-> 300]

ExecutionGroup(dma) ==
  [max_attempts |-> dma, current_attempt |-> 0, timeout_seconds |-> 300]

ProviderContextGroup(st) ==
  [preferred_model |-> NoTime, complexity_hint |-> _estimate_complexity(st)]

\* created_at = datetime.utcnow().isoformat() + "Z"
MetadataGroup(st, t) ==
  [created_at |-> <<t, "Z">>, source_domain |-> "devbacklog",
   priority |-> st.priority, est_points |-> st.est_points]

\* The dict display of _create_task_packet: the seven group dicts are built in
\* order, then the packet dict that refers to them; the packet is the last
\* object of the returned heap.
_create_task_packet(h, st, criteria, task_index, task_id, dma, t) ==
  h \o << IdentityGroup(st, task_id),
          GoalGroup(st, criteria, task_index),
          ConstraintsGroup(st),
          InputsGroup,
          ExecutionGroup(dma),
          ProviderContextGroup(st),
          MetadataGroup(st, t),
          [identity |-> Len(h) + 1, goal |-> Len(h) + 2, constraints |-> Len(h) + 3,
           inputs |-> Len(h) + 4, execution |-> Len(h) + 5,
           provider_context |-> Len(h) + 6, metadata |-> Len(h) + 7] >>

\* The packet at address p with its groups read through.
Deref(h, p) == [g \in DOMAIN h[p] |-> h[h[p][g]]]

\* A variant that never finds the list full.
HasRoomAlways(tasks, cap) == TRUE

\* if len(tasks) < self.max_tasks
HasRoom(tasks, cap) == Len(tasks) < cap

\* criteria[i:i+3]
Group(criteria, i) == SubSeq(criteria, i + 1, Min(i + 3, Len(criteria)))

\* One packet more: uuid4 is drawn, the objects are allocated, the packet's
\* address is appended to the list.
Emitted(acc, st, criteria, task_index, dma, t) ==
  [heap |-> _create_task_packet(acc.heap, st, criteria, task_index,
                                acc.issued + 1, dma, t),
   issued |-> acc.issued + 1,
   tasks |-> Append(acc.tasks, Len(acc.heap) + 8)]

\* for i in range(0, len(criteria), 3)
RECURSIVE Decompose(_, _, _, _, _, _, _)
Decompose(acc, st, criteria, i, cap, dma, t) ==
  IF i >= Len(criteria) THEN acc
  ELSE Decompose(IF HasRoom(acc.tasks, cap)
                 THEN Emitted(acc, st, Group(criteria, i), i \div 3, dma, t)
                 ELSE acc,
                 st, criteria, i + 3, cap, dma, t)

compile(h, n, st, cap, dma, t) ==
  LET criteria == _parse_acceptance_criteria(st.acceptance_criteria)
      acc == [heap |-> h, issued |-> n, tasks |-> <<>>]
  IN IF Len(criteria) <= 3 THEN Emitted(acc, st, criteria, 0, dma, t)
     ELSE Decompose(acc, st, criteria, 0, cap, dma, t)

\* A variant of dict.copy() that hands back the dict it was given.
CopyAddressAlias(h, a) == a

\* dict.copy(): a new object with the same entries, at the next address.
CopyAddress(h, a) == Len(h) + 1

Copied(h, a) == Append(h, h[a])

enrich_for_retry(h, p, guidance, attempt) ==
  LET enriched == CopyAddress(h, p)
      h1 == Copied(h, p)
      inputs == CopyAddress(h1, h1[p].inputs)
      h2 == [Copied(h1, h1[p].inputs) EXCEPT ![enriched].inputs = inputs]
      h3 == [h2 EXCEPT ![h2[enriched].inputs].retry_guidance = guidance]
      execution == CopyAddress(h3, h3[p].execution)
      h4 == [Copied(h3, h3[p].execution) EXCEPT ![enriched].execution = execution]
      h5 == [h4 EXCEPT ![h4[enriched].execution].current_attempt = attempt]
  IN [heap |-> h5, result |-> enriched]

\* Stories.  Long texts have up to MaxLines lines, each a bulleted criterion
\* of its own letter, one of them possibly blank; the single-line texts carry
\* the prefixes the parser looks at.
Letters == <<"a", "b", "c", "d", "e", "f", "g", "h", "i">>
Item(i) == <<"-", " ", Letters[i]>>

LongTexts ==
  UNION {{Join([i \in 1..k |-> IF i = blank THEN <<>> ELSE Item(i)]) :
            blank \in 0..k} : k \in 0..MaxLines}

SingleLines ==
  { <<"a">>, <<" ", "a", " ">>, <<" ">>, <<"\t">>, <<"-">>, <<"-", "a">>,
    <<"*", " ", "a">>, <<"U+2022", "a">>, <<"U+2713", " ", "a">>,
    <<"-", "-", "a">>, <<"1", ".">>, <<"1", ".", " ", "a">>, <<"1", ".", "a">>,
    <<"1", "2", ".", " ", "a">>, <<"1", "a", ".", " ", "b">>, <<"1", " ", "a">>,
    <<"1", "2", "3", ".", " ", "a">>, <<"a", ".", "b">>, <<".", "a">>,
    <<"-", " ", "1", ".", " ", "a">>, <<"1", ".", "2", ".", " ", "a">>,
    <<"1", ".", " ", "-", " ", "a">>, <<"a", " ", "b">> }

Texts == LongTexts \cup SingleLines

StoryOf(text, epic_id, est_points) ==
  [id |-> 1, title |-> "T", narrative |-> "N", acceptance_criteria |-> text,
   epic_id |-> epic_id, priority |-> 0, est_points |-> est_points]

Stories ==
  {StoryOf(text, NoTime, NoTime) : text \in Texts}
    \cup {StoryOf(Item(1), 7, est_points) : est_points \in {2, 5, 8}}

CapChoices == {0, 1, 2}
DefaultMaxAttemptsChoices == {0, 3}
\* (guidance, attempt) arguments of enrich_for_retry
RetryChoices == {<<<<>>, 1>>, <<<<"fix the failing test">>, 2>>}

InitCompiler ==
  /\ story \in Stories
  /\ max_tasks \in CapChoices
  /\ default_max_attempts \in DefaultMaxAttemptsChoices
  /\ heap = <<>>
  /\ issued = 0
  /\ compiled = <<>>
  /\ enrich = NoEnrich
  /\ definitions \in {d \in ProviderDocs : ~d["B"].enabled}
  /\ states = LoadedStates
  /\ rate_limit_cooldown = 2
  /\ now = 0
  /\ cached_stats = EmptyStats
  /\ sel = NoSelection
  /\ last_op = NoOp
  /\ ops_done = 0
  /\ lookup = NoLookup
  /\ EngineIdle
  /\ AdapterIdle
  /\ recording = TRUE
  /\ DaemonIdle

CompilerFrame ==
  /\ UNCHANGED <<definitions, states, rate_limit_cooldown, now, cached_stats, sel,
                 last_op, ops_done, lookup, story, max_tasks, default_max_attempts>>
  /\ UNCHANGED EngineVars
  /\ UNCHANGED AdapterVars
  /\ UNCHANGED <<recording, DaemonVars>>

\* compile(story)
CompilerCompile ==
  /\ Len(compiled) < MaxCalls
  /\ LET out == compile(heap, issued, story, max_tasks, default_max_attempts, now)
     IN /\ heap' = out.heap
        /\ issued' = out.issued
        /\ compiled' = Append(compiled, [at |-> now, tasks |-> out.tasks])
  /\ UNCHANGED enrich
  /\ CompilerFrame

\* enrich_for_retry(task_packet, guidance, attempt) on a packet of the first
\* compiled list
CompilerEnrich ==
  /\ ~enrich.called
  /\ Len(compiled) >= 1
  /\ \E k \in 1..Len(compiled[1].tasks), retry \in RetryChoices :
       LET p == compiled[1].tasks[k]
           out == enrich_for_retry(heap, p, retry[1], retry[2])
       IN /\ heap' = out.heap
          /\ enrich' = [called |-> TRUE, p |-> p, guidance |-> retry[1],
                        attempt |-> retry[2], result |-> out.result,
                        before |-> Deref(heap, p)]
  /\ UNCHANGED <<issued, compiled>>
  /\ CompilerFrame

NextCompiler ==
  \/ CompilerCompile
  \/ CompilerEnrich
  \/ Tick

SpecCompiler == InitCompiler /\ [][NextCompiler]_vars

\* ---------------------------------------------------------------- dispatch
\* _process_new_stories, lines 155-182, for one story: the story is compiled
\* and one of its packets is handed to the engine, which runs as above with
\* the packet's dict in its hands.
DispatchStories ==
  {StoryOf(Join([i \in 1..k |-> Item(i)]), NoTime, NoTime) : k \in {1, 4}}

InitDispatch ==
  /\ story \in DispatchStories
  /\ max_tasks = 2
  /\ default_max_attempts \in {1, 2}
  /\ heap = <<>>
  /\ issued = 0
  /\ compiled = <<>>
  /\ enrich = NoEnrich
  /\ definitions = CHOOSE d \in ProviderDocs : \A n \in Names : d[n].enabled
  /\ states = LoadedStates
  /\ rate_limit_cooldown = 2
  /\ now = 0
  /\ cached_stats = EmptyStats
  /\ sel = NoSelection
  /\ last_op = NoOp
  /\ ops_done = 0
  /\ lookup = NoLookup
  /\ EngineIdle
  /\ AdapterIdle
  /\ recording = TRUE
  /\ DaemonIdle

\* Line 155: task_packets = self.compiler.compile(story).
DispatchCompile ==
  /\ pc = "idle"
  /\ compiled = <<>>
  /\ CompilerCompile

\* Lines 157-182: the context of a packet of the list and the call of
\* _execute_task with the packet.
Dispatch ==
  /\ pc = "idle"
  /\ compiled # <<>>
  /\ \E k \in 1..Len(compiled[1].tasks) :
       LET p == compiled[1].tasks[k]
           ctx == [attempt |-> 0,
                   max_attempts |-> heap[heap[p].execution].max_attempts,
                   providers_tried |-> <<>>]
       IN /\ task_packet' = p
          /\ context' = ctx
          /\ start' = ctx
  /\ has_packet' = TRUE
  /\ runs' = <<>>
  /\ log' = <<>>
  /\ qa' = NoCalls
  /\ exhausted' = <<>>
  /\ seen' = <<>>
  /\ current' = NoProvider
  /\ result' = NoResult
  /\ pc' = "loop"
  /\ UNCHANGED <<definitions, states, rate_limit_cooldown, now, cached_stats, sel,
                 last_op, ops_done, lookup, recording>>
  /\ UNCHANGED CompilerVars
  /\ UNCHANGED AdapterVars
  /\ UNCHANGED DaemonVars

NextDispatch ==
  \/ DispatchCompile
  \/ Dispatch
  \/ EngineExhausted
  \/ EngineSelect
  \/ EngineLookup
  \/ EngineStartRun
  \/ EngineGenerate
  \/ EngineCompleteRun
  \/ EngineHandleResult

SpecDispatch == InitDispatch /\ [][NextDispatch]_vars

\* ---------------------------------------------------------------- adapters
\* A text of the tool (its output, an exception's message) is a sequence of
\* phrases; a pattern occurs in it when it is one of its phrases, lowered.
RATE_LIMIT_PATTERNS ==
  {"rate limit", "too many requests", "quota exceeded", "429", "overloaded"}

Lower(phrase) ==
  CASE phrase = "Rate limit" -> "rate limit"
    [] phrase = "OVERLOADED" -> "overloaded"
    [] OTHER -> phrase

Matches(text, patterns) == \E i \in 1..Len(text) : Lower(text[i]) \in patterns

\* detect_rate_limit(e) of the three adapters
detect_rate_limit(adapter, error) ==
  IF adapter = "claude_cli" THEN Matches(error, RATE_LIMIT_PATTERNS) ELSE FALSE

\* ClaudeCLIProvider._is_rate_limited(output)
_is_rate_limited(output) == Matches(output, RATE_LIMIT_PATTERNS)

BundleOf(execution_status, is_rate_limit) ==
  [execution_status |-> execution_status, is_rate_limit |-> is_rate_limit]

\* A variant that reports a rate limit as an ordinary failure of the task.
RateLimitedBundleAsFailure == BundleOf("failure", TRUE)

\* ArtifactBundle(execution_status='provider_failure', is_rate_limit=True)
RateLimitedBundle == BundleOf("provider_failure", TRUE)

\* except subprocess.TimeoutExpired / except Exception of the CLI adapters
CliHandled(c) ==
  IF c.path = "timeout" THEN BundleOf("failure", FALSE)
  ELSE IF detect_rate_limit(c.adapter, c.error) THEN RateLimitedBundle
  ELSE BundleOf("failure", FALSE)

GooseGenerate(c) ==
  IF c.path = "exit"
  THEN IF c.returncode = 0 THEN BundleOf("success", FALSE)
       ELSE BundleOf("failure", FALSE)
  ELSE CliHandled(c)

ClaudeGenerate(c) ==
  IF c.path = "exit"
  THEN IF _is_rate_limited(c.output) THEN RateLimitedBundle
       ELSE IF c.returncode = 0 THEN BundleOf("success", FALSE)
       ELSE BundleOf("failure", FALSE)
  ELSE CliHandled(c)

\* The ollama client raises on timeout as on any other error.
OllamaGenerate(c) ==
  IF ~c.has_ollama THEN BundleOf("provider_failure", FALSE)
  ELSE IF c.path = "exit" THEN BundleOf("success", FALSE)
  ELSE BundleOf("failure", FALSE)

generate(c) ==
  CASE c.adapter = "goose" -> GooseGenerate(c)
    [] c.adapter = "claude_cli" -> ClaudeGenerate(c)
    [] c.adapter = "ollama" -> OllamaGenerate(c)

\* How a call may go: the tool exits with a return code and an output, the
\* tool times out, or an exception with some message is raised.
ToolTexts == {<<>>, <<"done">>, <<"error", "Rate limit">>, <<"429">>,
              <<"server", "OVERLOADED">>}
CallPaths == {"exit", "timeout", "exception"}

Calls ==
  [adapter : KnownAdapters, has_ollama : BOOLEAN, path : CallPaths,
   returncode : {0, 1}, output : ToolTexts, error : ToolTexts]

InitAdapters ==
  /\ call \in Calls
  /\ returned = NoResult
  /\ definitions \in {d \in ProviderDocs : ~d["B"].enabled}
  /\ states = LoadedStates
  /\ rate_limit_cooldown = 2
  /\ now = 0
  /\ cached_stats = EmptyStats
  /\ sel = NoSelection
  /\ last_op = NoOp
  /\ ops_done = 0
  /\ lookup = NoLookup
  /\ EngineIdle
  /\ CompilerIdle
  /\ recording = TRUE
  /\ DaemonIdle

\* provider.generate(task_packet)
AdapterGenerate ==
  /\ returned = NoResult
  /\ returned' = generate(call)
  /\ UNCHANGED <<definitions, states, rate_limit_cooldown, now, cached_stats, sel,
                 last_op, ops_done, lookup, call, recording, DaemonVars>>
  /\ UNCHANGED EngineVars
  /\ UNCHANGED CompilerVars

NextAdapters == AdapterGenerate

SpecAdapters == InitAdapters /\ [][NextAdapters]_vars

\* ------------------------------------------------------------------ daemon
\* MasonDaemon.run: the poll loop, the two phases of a cycle, the sleep between
\* cycles and the shutdown signal.  The engine is followed call by call: what
\* select, the adapter lookup and start_run come to, and the generate call in
\* flight.  PollInterval stands for Config.poll_interval.
Event(e, s, i) == [e |-> e, story |-> s, index |-> i]

Did(events) == [trace EXCEPT !.events = @ \o events]

\* What is counted once the signal has been handled.
Counted(what) == IF stop.at = "none" THEN stop ELSE [stop EXCEPT ![what] = @ + 1]

Numbered(n) == [i \in 1..n |-> i]

\* A variant that walks a list from its end.
NextOfLast(queue) == queue[Len(queue)]

\* `for x in xs`: the element of this iteration, and what is left.
NextOf(queue) == Head(queue)

Rest(queue) == SelectSeq(queue, LAMBDA x : x # NextOf(queue))

\* A variant of the sleep loop that does not look at the flag.
SleepUninterrupted(running) == FALSE

\* Lines 99-100: `if not self._running: break`.
SleepInterrupted(running) == ~running

\* A variant of the handler at lines 94-95 that gives up.
RunningAfterErrorStop(running) == FALSE

\* Lines 94-95: the handler logs cycle_error and does nothing else.
RunningAfterError(running) == running

DaemonFrame ==
  /\ UNCHANGED <<definitions, states, rate_limit_cooldown, now, cached_stats, sel,
                 last_op, ops_done, lookup, recording>>
  /\ UNCHANGED EngineVars
  /\ UNCHANGED CompilerVars
  /\ UNCHANGED AdapterVars

InitDaemon ==
  /\ definitions = CHOOSE d \in ProviderDocs : TRUE
  /\ states = LoadedStates
  /\ rate_limit_cooldown = CHOOSE c \in CooldownChoices : TRUE
  /\ now = 0
  /\ cached_stats = EmptyStats
  /\ sel = NoSelection
  /\ last_op = NoOp
  /\ ops_done = 0
  /\ lookup = NoLookup
  /\ EngineIdle
  /\ CompilerIdle
  /\ AdapterIdle
  /\ recording = TRUE
  /\ DaemonIdle

\* Lines 86-89.
Run ==
  /\ at = "init"
  /\ _running' = TRUE
  /\ at' = "top"
  /\ UNCHANGED <<work, cycle, closed, trace, stop, errors>>
  /\ DaemonFrame

\* Lines 81-84: the handler of SIGTERM and SIGINT, at any point of run.
_handle_shutdown ==
  /\ _running
  /\ _running' = FALSE
  /\ stop' = [stop EXCEPT !.at = at]
  /\ UNCHANGED <<at, work, cycle, closed, trace, errors>>
  /\ DaemonFrame

\* Line 91: `while self._running`.
WhileRunning ==
  /\ at = "top"
  /\ IF _running
     THEN /\ cycle < MaxCycles
          /\ cycle' = cycle + 1
          /\ trace' = NoTrace
          /\ stop' = Counted("cycles")
          /\ at' = "retry_fetch"
     ELSE /\ at' = "cleanup"
          /\ UNCHANGED <<cycle, trace, stop>>
  /\ UNCHANGED <<_running, work, closed, errors>>
  /\ DaemonFrame

\* Lines 116-120: get_retry_queue; a failure ends the retry phase.
FetchRetryQueue ==
  /\ at = "retry_fetch"
  /\ \E ok \in BOOLEAN, n \in 0..MaxRetry :
       IF ok
       THEN /\ work' = [work EXCEPT !.retry = Numbered(n)]
            /\ trace' = [trace EXCEPT !.fetched = n]
            /\ at' = "retry_next"
       ELSE /\ at' = "story_fetch"
            /\ UNCHANGED <<work, trace>>
  /\ UNCHANGED <<_running, cycle, closed, stop, errors>>
  /\ DaemonFrame

\* Lines 122-135: the next retry task, unless the flag is down.
RetryNext ==
  /\ at = "retry_next"
  /\ IF work.retry = <<>> \/ ~_running
     THEN /\ at' = "story_fetch"
          /\ UNCHANGED <<work, trace, stop>>
     ELSE \E a \in 0..1 :
            /\ work' = [work EXCEPT
                          !.retry = Rest(@),
                          !.task = [phase |-> "retry", story |-> 0,
                                    index |-> NextOf(work.retry),
                                    attempt |-> a, max_attempts |-> 1]]
            /\ trace' = Did(<<Event("retry", 0, NextOf(work.retry))>>)
            /\ stop' = Counted("started")
            /\ at' = "engine"
  /\ UNCHANGED <<_running, cycle, closed, errors>>
  /\ DaemonFrame

\* Lines 139-143: get_ready_stories; a failure ends the cycle.
FetchStories ==
  /\ at = "story_fetch"
  /\ \E ok \in BOOLEAN, n \in 0..MaxStories :
       IF ok
       THEN /\ work' = [work EXCEPT !.stories = Numbered(n)]
            /\ trace' = [trace EXCEPT !.events = Append(@, Event("poll", 0, 0)),
                                      !.polled = TRUE,
                                      !.polled_running = _running]
            /\ at' = "story_next"
       ELSE /\ work' = [work EXCEPT !.ticks = PollInterval]
            /\ trace' = NoTrace
            /\ at' = "sleep_check"
  /\ UNCHANGED <<_running, cycle, closed, stop, errors>>
  /\ DaemonFrame

\* Lines 145-155: the next story, unless the flag is down: it is marked in
\* progress and compiled.
StoryNext ==
  /\ at = "story_next"
  /\ IF work.stories = <<>> \/ ~_running
     THEN /\ work' = [work EXCEPT !.ticks = PollInterval]
          /\ trace' = NoTrace
          /\ at' = "sleep_check"
          /\ UNCHANGED stop
     ELSE \E k \in 0..MaxPackets :
            /\ work' = [work EXCEPT !.stories = Rest(@),
                                    !.story = NextOf(work.stories),
                                    !.packets = Numbered(k)]
            /\ trace' = Did(<<Event("story", NextOf(work.stories), 0)>>)
            /\ stop' = Counted("started")
            /\ at' = "packet_next"
  /\ UNCHANGED <<_running, cycle, closed, errors>>
  /\ DaemonFrame

\* A variant that dispatches whatever submit_task did.
AfterSubmitAlways(ok) == "engine"

\* Lines 160-182: submit_task returned: on to _execute_task; it raised:
\* `continue`.
AfterSubmit(ok) == IF ok THEN "engine" ELSE "packet_next"

\* Lines 157-182: the next packet, unless the flag is down: it is submitted,
\* and dispatched when the submission went through.
PacketNext ==
  /\ at = "packet_next"
  /\ IF work.packets = <<>> \/ ~_running
     THEN /\ at' = "story_next"
          /\ UNCHANGED <<work, trace, stop>>
     ELSE /\ stop' = Counted("started")
          /\ \E ok \in BOOLEAN, m \in 1..2 :
               IF ok
               THEN /\ work' = [work EXCEPT
                                  !.packets = Rest(@),
                                  !.task = [phase |-> "new", story |-> work.story,
                                            index |-> NextOf(work.packets),
                                            attempt |-> 0, max_attempts |-> m]]
                    /\ trace' = Did(<<Event("submit", work.story, NextOf(work.packets)),
                                      Event("dispatch", work.story, NextOf(work.packets))>>)
                    /\ at' = AfterSubmit(ok)
               ELSE /\ work' = [work EXCEPT !.packets = Rest(@)]
                    /\ trace' = Did(<<Event("submit_failed", work.story,
                                            NextOf(work.packets))>>)
                    /\ at' = AfterSubmit(ok)
  /\ UNCHANGED <<_running, cycle, closed, errors>>
  /\ DaemonFrame

\* _execute_task returns to the loop that called it.
Return ==
  /\ trace' = Did(<<Event(IF work.task.phase = "retry" THEN "retry_done" ELSE "done",
                          work.task.story, work.task.index)>>)
  /\ work' = [work EXCEPT !.task = NoTask]
  /\ at' = IF work.task.phase = "retry" THEN "retry_next" ELSE "packet_next"
  /\ UNCHANGED stop

\* Lines 191-233: one pass of the engine's loop up to the generate call.  The
\* loop's condition is the attempt count alone.
ExecuteTask ==
  /\ at = "engine"
  /\ IF ~(work.task.attempt < work.task.max_attempts)
     THEN Return
     ELSE \E outcome \in {"no_provider", "not_initialized", "start_run_failed",
                          "started"} :
            CASE outcome = "not_initialized" ->
                   UNCHANGED <<at, work, trace, stop>>
              [] outcome = "started" /\ work.task.phase = "new" ->
                   /\ stop.generates < MaxGenerates
                   /\ stop' = Counted("generates")
                   /\ at' = "generate"
                   /\ UNCHANGED <<work, trace>>
              [] OTHER -> Return
  /\ UNCHANGED <<_running, cycle, closed, errors>>
  /\ DaemonFrame

\* Lines 228-287: generate returns, the run is completed and the result
\* handled: success returns, a failure counts an attempt, a provider failure
\* does not.
ProviderReturns ==
  /\ at = "generate"
  /\ \E status \in {"success", "failure", "provider_failure"} :
       IF status = "success"
       THEN Return
       ELSE /\ work' = [work EXCEPT !.task.attempt = AttemptAfter(status, @)]
            /\ at' = "engine"
            /\ UNCHANGED <<trace, stop>>
  /\ UNCHANGED <<_running, cycle, closed, errors>>
  /\ DaemonFrame

\* Lines 92-95: an exception leaves the cycle body: from mark_in_progress or
\* compile (lines 152-155), or from inside the engine.
CycleError ==
  /\ \/ at = "story_next" /\ work.stories # <<>> /\ _running
     \/ at \in {"engine", "generate"}
  /\ errors' = errors + 1
  /\ _running' = RunningAfterError(_running)
  /\ work' = [NoWork EXCEPT !.ticks = PollInterval]
  /\ trace' = NoTrace
  /\ at' = "sleep_check"
  /\ UNCHANGED <<cycle, closed, stop>>
  /\ DaemonFrame

\* Lines 98-100: the head of the sleep loop.
SleepCheck ==
  /\ at = "sleep_check"
  /\ at' = IF work.ticks = 0 \/ SleepInterrupted(_running) THEN "top" ELSE "sleeping"
  /\ UNCHANGED <<_running, work, cycle, closed, trace, stop, errors>>
  /\ DaemonFrame

\* Line 101: time.sleep(1) returns.
SleepTick ==
  /\ at = "sleeping"
  /\ work' = [work EXCEPT !.ticks = @ - 1]
  /\ stop' = Counted("ticks")
  /\ at' = "sleep_check"
  /\ UNCHANGED <<_running, cycle, closed, trace, errors>>
  /\ DaemonFrame

\* Lines 103 and 296-299.
_cleanup ==
  /\ at = "cleanup"
  /\ closed' = {"devbacklog", "qaqueue"}
  /\ at' = "returned"
  /\ UNCHANGED <<_running, work, cycle, trace, stop, errors>>
  /\ DaemonFrame

DaemonStep ==
  \/ Run
  \/ WhileRunning
  \/ FetchRetryQueue
  \/ RetryNext
  \/ FetchStories
  \/ StoryNext
  \/ PacketNext
  \/ ExecuteTask
  \/ ProviderReturns
  \/ CycleError
  \/ SleepCheck
  \/ SleepTick
  \/ _cleanup

NextDaemon == DaemonStep \/ _handle_shutdown

SpecDaemon == InitDaemon /\ [][NextDaemon]_vars

\* The daemon's thread keeps going: every call it makes returns, generate
\* within its timeout, and time.sleep(1) after its second.  Nothing is assumed
\* about when a signal arrives.
SpecDaemonFair == SpecDaemon /\ WF_vars(DaemonStep)

\* ============================================================ engine claims
IsFailure(status) == status \notin {"success", "provider_failure"}

\* The generate calls whose bundle the engine has already dispatched on.
HandledRuns == IF pc \in {"complete", "handle"} THEN SubSeq(runs, 1, Len(runs) - 1)
               ELSE runs

FailureCount(rs) == Cardinality({i \in 1..Len(rs) : IsFailure(rs[i].execution_status)})

FreshStart == start.attempt = 0 /\ start.providers_tried = <<>>

\* C1: throughout one engine invocation the attempt counter equals its value
\* at entry plus the number of dispatched bundles whose status is a failure
\* (neither success nor provider_failure): each such bundle adds exactly one,
\* a provider_failure bundle adds nothing.
C1_AttemptAccounting ==
  pc # "idle" => context.attempt = start.attempt + FailureCount(HandledRuns)

\* C1 witness: an invocation that ended after more generate calls than
\* max_attempts, with a provider_failure and a failure among them.
C1_Witness ==
  /\ pc = "done"
  /\ Len(runs) > context.max_attempts
  /\ context.attempt > start.attempt
  /\ \E i \in 1..Len(runs) : runs[i].execution_status = "provider_failure"

\* The scenario of C4: a fresh context, exactly two generate calls, the first
\* a rate-limited provider_failure of A and the second a success of B.
C4_Scenario ==
  /\ pc = "done"
  /\ FreshStart
  /\ Len(runs) = 2
  /\ runs[1].execution_status = "provider_failure" /\ runs[1].is_rate_limit
  /\ runs[2].execution_status = "success"
  /\ runs[1].provider # runs[2].provider
  /\ log = <<"task_succeeded">>

\* C4 as claimed (taken with a positive configured cooldown): in that scenario
\* the engine returns with attempt 0, providers_tried = [A],
\* A.rate_limited_until later than now and B.consecutive_failures = 0.
C4_AsClaimed ==
  C4_Scenario /\ rate_limit_cooldown > 0 =>
    /\ context.attempt = 0
    /\ context.providers_tried = <<runs[1].provider>>
    /\ states[runs[1].provider].rate_limited_until # NoTime
    /\ states[runs[1].provider].rate_limited_until > now
    /\ states[runs[2].provider].consecutive_failures = 0

\* C4 amended: in that scenario the engine returns with attempt 0,
\* providers_tried = [A], B.consecutive_failures = 0 and A.rate_limited_until
\* set to the time A's failure was recorded plus the configured cooldown; that
\* instant is later than now exactly when less than the cooldown has passed
\* since the failure.
C4_RateLimitFailover ==
  C4_Scenario =>
    LET a == states[runs[1].provider]
    IN /\ context.attempt = 0
       /\ context.providers_tried = <<runs[1].provider>>
       /\ a.last_failure # NoTime /\ a.last_failure <= now
       /\ a.rate_limited_until = a.last_failure + rate_limit_cooldown
       /\ (a.rate_limited_until > now) = (now - a.last_failure < rate_limit_cooldown)
       /\ states[runs[2].provider].consecutive_failures = 0

\* C4 witness: the scenario has happened with a cooldown still running.
C4_Witness ==
  /\ C4_Scenario
  /\ states[runs[1].provider].rate_limited_until > now

\* The scenario of C5: a fresh context with max_attempts = 2 and a packet,
\* exactly two available providers, both with an adapter, every generate call
\* answered with 'failure', every start_run accepted.
C5_Scenario ==
  /\ pc = "done"
  /\ FreshStart
  /\ start.max_attempts = 2
  /\ has_packet
  /\ Len(get_available_providers(definitions, LoadedStates, 0)) = 2
  /\ \A n \in Names : definitions[n].enabled => Initialized(definitions, n)
  /\ \A i \in 1..Len(runs) : runs[i].execution_status = "failure"
  /\ \A i \in 1..Len(log) : log[i] # "start_run_failed"

\* C5 as claimed: the engine invokes A, B and A again and exits with attempt 2,
\* providers_tried = [A, B, A] and a task_exhausted event.
C5_AsClaimed ==
  C5_Scenario =>
    /\ Len(runs) = 3
    /\ runs[1].provider # runs[2].provider
    /\ runs[3].provider = runs[1].provider
    /\ context.attempt = 2
    /\ context.providers_tried = <<runs[1].provider, runs[2].provider, runs[1].provider>>
    /\ \E i \in 1..Len(log) : log[i] = "task_exhausted"

\* C5 amended: the engine invokes A, then B, and exits with attempt 2,
\* providers_tried = [A, B] and a task_exhausted event; A is not invoked a
\* second time, because the two failures have used up both attempts.
C5_RealFailureRetry ==
  C5_Scenario =>
    /\ Len(runs) = 2
    /\ runs[1].provider # runs[2].provider
    /\ context.attempt = 2
    /\ context.providers_tried = <<runs[1].provider, runs[2].provider>>
    /\ log = <<"task_exhausted">>

\* C5 witness: the scenario has happened.
C5_Witness == C5_Scenario /\ Len(runs) = 2

\* C26 as claimed: every engine invocation terminates, whatever the
\* providers and the registry do, a provider that keeps returning
\* provider_failure without a rate limit and a selected provider without an
\* initialized adapter included.  (An invocation that runs into the bound on
\* the failure counters is counted as terminating.)
C26_AsClaimed == <>(pc = "done" \/ AtBound)

\* C27 as claimed: every start_run that returned is followed by exactly one
\* complete_run for its run before the engine issues another start_run or
\* returns: between iterations and at the return the complete_run calls are
\* the runs started, one each and in order.
C27_AsClaimed ==
  pc \in {"loop", "lookup", "start_run", "done"} =>
    /\ Len(qa.completes) = qa.starts
    /\ \A i \in 1..Len(qa.completes) : qa.completes[i] = i

C29_SkipUninitialized ==
  [][(pc = "lookup" /\ pc' # pc /\ ~Initialized(definitions, current)) =>
       /\ context' = [context EXCEPT !.providers_tried = Append(@, current)]
       /\ qa' = qa
       /\ runs' = runs
       /\ states' = states
       /\ pc' = "loop"
       /\ context'.attempt < context'.max_attempts]_vars

C29_Witness ==
  /\ pc = "loop"
  /\ log # <<>>
  /\ log[Len(log)] = "provider_not_initialized"
  /\ context.providers_tried # <<>>
  /\ context.providers_tried[Len(context.providers_tried)] = current
  /\ ~Initialized(definitions, current)
  /\ context.attempt = start.attempt

\* C30: generate is reached only with a run started in this iteration and
\* never after a start_run that raised; the step on which start_run raises
\* ends the invocation and leaves the runs, the complete_run calls, attempt,
\* providers_tried and the provider states as they were.
C30_StartRunFirst ==
  /\ [](/\ pc = "generate" => (qa.starts = Len(runs) + 1 /\ ~qa.failed_start)
        /\ Len(runs) <= qa.starts
        /\ qa.failed_start => (pc = "done" /\ Len(qa.completes) = Len(runs)))
  /\ [][(pc = "start_run" /\ qa'.failed_start) =>
          /\ pc' = "done"
          /\ runs' = runs
          /\ qa'.completes = qa.completes
          /\ qa'.starts = qa.starts
          /\ context' = context
          /\ states' = states]_vars

C30_Witness ==
  /\ pc = "done"
  /\ qa.failed_start
  /\ Len(runs) >= 1
  /\ log[Len(log) - 1] = "start_run_failed"

\* C31: the step that handles a bundle does to the registry, to providers_tried
\* and to attempt, and goes where, the bundle alone decides: the same after a
\* complete_run that raised as after one that returned.
C31_CompleteRunOutcomeIgnored ==
  [][(pc = "handle" /\ pc' # pc) =>
       /\ states' = StatesAfter(states, result, current, rate_limit_cooldown, now)
       /\ context'.providers_tried =
            IF result.execution_status = "success"
            THEN context.providers_tried
            ELSE Append(context.providers_tried, current)
       /\ context'.attempt =
            IF result.execution_status = "failure"
            THEN context.attempt + 1
            ELSE context.attempt
       /\ context'.max_attempts = context.max_attempts
       /\ pc' = IF result.execution_status = "success" THEN "done" ELSE "loop"]_vars

C31_Witness ==
  /\ pc = "done"
  /\ ~qa.complete_ok
  /\ runs # <<>>
  /\ runs[Len(runs)].execution_status = "success"
  /\ log[Len(log)] = "task_succeeded"
  /\ states[current].consecutive_failures = 0

\* C33: an invocation that has returned without a success bundle has logged
\* exactly one task_exhausted event, with the attempt count and the
\* providers_tried list the context ends with; one that returned on success,
\* and one still under way, has logged none.
Succeeded == runs # <<>> /\ runs[Len(runs)].execution_status = "success"

C33_OneExhaustionEvent ==
  LET logged == {i \in 1..Len(log) : log[i] = "task_exhausted"}
  IN /\ Cardinality(logged) = Len(exhausted)
     /\ (pc = "done" /\ ~Succeeded) =>
          /\ logged = {Len(log)}
          /\ exhausted = <<[attempts |-> context.attempt,
                            providers_tried |-> context.providers_tried]>>
     /\ (pc # "done" \/ Succeeded) => logged = {}

C33_Witness ==
  /\ pc = "done"
  /\ ~Succeeded
  /\ runs # <<>>
  /\ context.attempt = context.max_attempts
  /\ context.attempt > start.attempt
  /\ exhausted = <<[attempts |-> context.attempt,
                    providers_tried |-> context.providers_tried]>>

\* C34: during an invocation a step leaves providers_tried alone or appends
\* the selected provider's name to it, the latter on the skip of a provider
\* without adapter and on the handling of a bundle that is not a success, and
\* on every such step; so the list has grown from the one the context came
\* with by one name per skip and per handled run that did not succeed.
Skips == Cardinality({i \in 1..Len(log) : log[i] = "provider_not_initialized"})

Unsuccessful ==
  Cardinality({i \in 1..Len(HandledRuns) : HandledRuns[i].execution_status # "success"})

C34_TriedAppendOnly ==
  /\ [][pc # "idle" =>
          LET skip == pc = "lookup" /\ pc' # pc /\ ~Initialized(definitions, current)
              fail == pc = "handle" /\ pc' # pc /\ result.execution_status # "success"
          IN IF skip \/ fail
             THEN context'.providers_tried = Append(context.providers_tried, current)
             ELSE context'.providers_tried = context.providers_tried]_vars
  /\ [](pc # "idle" =>
          /\ Len(context.providers_tried) =
               Len(start.providers_tried) + Skips + Unsuccessful
          /\ SubSeq(context.providers_tried, 1, Len(start.providers_tried)) =
               start.providers_tried)

C34_Witness ==
  /\ pc = "done"
  /\ Succeeded
  /\ Skips = 1
  /\ Unsuccessful = 1
  /\ start.providers_tried = <<>>
  /\ Len(context.providers_tried) = 2

\* C35: in an invocation for a new packet, whose context starts with attempt 0,
\* attempt stays between 0 and max_attempts in every state, and no more than
\* max_attempts generate calls return the status failure.
FailureRuns ==
  Cardinality({i \in 1..Len(runs) : runs[i].execution_status = "failure"})

C35_AttemptBounds ==
  (pc # "idle" /\ has_packet) =>
    /\ start.attempt = 0
    /\ start.max_attempts >= 0
    /\ context.max_attempts = start.max_attempts
    /\ 0 <= context.attempt
    /\ context.attempt <= context.max_attempts
    /\ FailureRuns <= context.max_attempts

C35_Witness ==
  /\ pc = "done"
  /\ has_packet
  /\ context.max_attempts = 2
  /\ context.attempt = 2
  /\ FailureRuns = 2
  /\ Len(runs) > 2

\* ============================================================ daemon claims
Events == trace.events

EventsBefore(i, kinds, s) ==
  {j \in 1..(i - 1) : Events[j].e \in kinds /\ Events[j].story = s}

\* The order of a cycle: the retry tasks one after the other in the order of
\* the queue, each engine run finished before the next; all of them before
\* the backlog is polled and before anything is done for a story; the packets
\* of a story submitted in emission order, each submitted packet dispatched at
\* once, and its engine run finished before the next packet is submitted.
CycleOrder ==
  \A i \in 1..Len(Events) :
    /\ Events[i].e \in {"retry", "retry_done"} =>
         \A j \in 1..(i - 1) : Events[j].e \in {"retry", "retry_done"}
    /\ Events[i].e = "retry" =>
         /\ Events[i].index = Cardinality(EventsBefore(i, {"retry"}, 0)) + 1
         /\ i < Len(Events) => Events[i + 1] = Event("retry_done", 0, Events[i].index)
    /\ Events[i].e \in {"submit", "submit_failed"} =>
         Events[i].index =
           Cardinality(EventsBefore(i, {"submit", "submit_failed"}, Events[i].story)) + 1
    /\ Events[i].e = "submit" =>
         /\ i < Len(Events)
         /\ Events[i + 1] = Event("dispatch", Events[i].story, Events[i].index)
    /\ Events[i].e = "dispatch" =>
         /\ i > 1
         /\ Events[i - 1] = Event("submit", Events[i].story, Events[i].index)
         /\ i < Len(Events) =>
              Events[i + 1] = Event("done", Events[i].story, Events[i].index)

Driven == Cardinality({i \in 1..Len(Events) : Events[i].e = "retry_done"})

\* C22 as claimed: the order above, and when the backlog is polled every task
\* of the retry queue has been driven through the engine.
C22_AsClaimed ==
  /\ CycleOrder
  /\ trace.polled => Driven = trace.fetched

\* C22: the order above; when the backlog is polled with the running flag
\* still up, every task of the retry queue has been driven through the engine.
C22_CycleOrder ==
  /\ CycleOrder
  /\ (trace.polled /\ trace.polled_running) => Driven = trace.fetched

C22_Witness ==
  /\ trace.polled_running
  /\ trace.fetched = 2
  /\ \E i, j \in 1..Len(Events) :
       /\ i < j
       /\ Events[i] = Event("done", 1, 1)
       /\ Events[j] = Event("dispatch", 1, 2)

\* C23 as claimed: once the signal has been handled no retry task, story or
\* packet is begun and no generate call is started.
C23_AsClaimed ==
  /\ stop.started = 0
  /\ stop.generates = 0

InSleep == {"sleep_check", "sleeping"}

\* C24: when the signal is handled during the sleep between two cycles, at
\* most one more time.sleep(1) returns, no cycle is started and nothing is
\* begun; run goes on to return, and when it has returned both clients are
\* closed.
C24_SignalDuringSleep ==
  /\ [](stop.at \in InSleep =>
          /\ ~_running
          /\ stop.ticks <= 1
          /\ stop.cycles = 0
          /\ stop.started = 0
          /\ at \in InSleep \cup {"top", "cleanup", "returned"}
          /\ at = "returned" => closed = {"devbacklog", "qaqueue"})
  /\ (stop.at \in InSleep) ~> (at = "returned")

C24_Witness ==
  /\ stop.at = "sleeping"
  /\ stop.ticks = 1
  /\ work.ticks >= 1
  /\ at = "returned"
  /\ closed = {"devbacklog", "qaqueue"}

\* C25: the step on which an exception leaves the cycle body keeps the running
\* flag as it is and takes the loop to its sleep; the loop is left only with
\* the flag down; with the flag up, the check after the sleep starts the next
\* cycle.
C25_CycleErrorCaught ==
  /\ [][errors' # errors =>
          /\ _running' = _running
          /\ at' = "sleep_check"
          /\ closed' = closed]_vars
  /\ [](at \in {"cleanup", "returned"} => ~_running)
  /\ [][(at = "top" /\ at' # at /\ _running) =>
          (at' = "retry_fetch" /\ cycle' = cycle + 1)]_vars

C25_Witness ==
  /\ errors >= 1
  /\ cycle = 2
  /\ _running
  /\ at = "retry_fetch"
  /\ stop.at = "none"

\* C32: the engine runs for a new packet only with that packet submitted and
\* dispatched just before; a packet whose submit_task raised is never
\* dispatched and no engine run is made for it, and what comes next is the
\* submission of the following packet of the story, or the end of the story's
\* packets.
C32_SubmitBeforeDispatch ==
  /\ at \in {"engine", "generate"} =>
       /\ work.task.phase \in {"retry", "new"}
       /\ work.task.phase = "new" =>
            /\ Len(Events) >= 2
            /\ Events[Len(Events)] =
                 Event("dispatch", work.task.story, work.task.index)
            /\ Events[Len(Events) - 1] =
                 Event("submit", work.task.story, work.task.index)
  /\ \A i \in 1..Len(Events) :
       /\ Events[i].e \in {"dispatch", "done"} =>
            \E j \in 1..(i - 1) :
              Events[j] = Event("submit", Events[i].story, Events[i].index)
       /\ Events[i].e = "submit_failed" =>
            /\ \A j \in 1..Len(Events) :
                 Events[j].e \in {"submit", "dispatch", "done"} =>
                   ~(/\ Events[j].story = Events[i].story
                     /\ Events[j].index = Events[i].index)
            /\ i < Len(Events) =>
                 \/ /\ Events[i + 1].e \in {"submit", "submit_failed"}
                    /\ Events[i + 1].story = Events[i].story
                    /\ Events[i + 1].index = Events[i].index + 1
                 \/ Events[i + 1].e = "story"
            /\ i = Len(Events) =>
                 /\ at \in {"packet_next", "story_next"}
                 /\ work.task = NoTask
                 /\ (at = "packet_next" /\ work.packets # <<>>) =>
                      NextOf(work.packets) = Events[i].index + 1

C32_Witness ==
  /\ Len(Events) >= 4
  /\ \E i \in 1..(Len(Events) - 3) :
       /\ Events[i] = Event("submit_failed", 1, 1)
       /\ Events[i + 1] = Event("submit", 1, 2)
       /\ Events[i + 2] = Event("dispatch", 1, 2)
       /\ Events[i + 3] = Event("done", 1, 2)

\* ========================================================== selector claims
\* The sets the selector claims speak of, written from the claims' words.
AvailableAt(t) ==
  {n \in Names : /\ definitions[n].enabled
                 /\ states[n].available
                 /\ ~(states[n].rate_limited_until # NoTime
                      /\ states[n].rate_limited_until > t)}

TriedSet == {sel.tried[i] : i \in 1..Len(sel.tried)}

\* Available and untried, or all available after the fallback.
CandidateSet ==
  IF AvailableAt(sel.t1) \ TriedSet # {} THEN AvailableAt(sel.t1) \ TriedSet
  ELSE AvailableAt(sel.t1)

LocalCandidates == {n \in CandidateSet : definitions[n].type = "local"}

HighLoad == sel.load.ok /\ sel.load.total_active > HighLoadThreshold

\* The candidates that are scored.
ScoredSet == IF HighLoad /\ LocalCandidates # {} THEN LocalCandidates ELSE CandidateSet

\* score(p) = (1/priority) * success_rate * confidence_weight with the cached
\* rate when the cache has an entry with total_runs > 0 and 0.5 otherwise;
\* ClaimedNum(p) / priority(p) is 8 * score(p).
ClaimedRate(n) ==
  IF cached_stats[n].present /\ cached_stats[n].total_runs > 0
  THEN cached_stats[n].success_rate ELSE 2

ClaimedNum(n) == ClaimedRate(n) * definitions[n].confidence_weight

ScoreAtLeast(p, q) ==
  ClaimedNum(p) * definitions[q].priority >= ClaimedNum(q) * definitions[p].priority

ConfigIndex(n) == CHOOSE i \in 1..Len(ConfigOrder) : ConfigOrder[i] = n

\* p comes before q in available-provider order: ascending priority, and
\* the order of the providers document among equal priorities.
ComesBefore(p, q) ==
  \/ definitions[p].priority < definitions[q].priority
  \/ definitions[p].priority = definitions[q].priority /\ ConfigIndex(p) < ConfigIndex(q)

\* C2: if some available provider (enabled, available flag true, not on
\* cooldown when select is called) is not in providers_tried, select returns
\* a provider and that provider is not in providers_tried.
C2_SelectorExclusion ==
  (sel.called /\ AvailableAt(sel.t1) \ TriedSet # {}) =>
    sel.provider \in Names \ TriedSet

\* C2 witness: a call with an untried available provider while a tried
\* available provider scores at least as high.
C2_Witness ==
  /\ sel.called
  /\ \E m \in AvailableAt(sel.t1) \ TriedSet, n \in AvailableAt(sel.t1) \cap TriedSet :
       ScoreAtLeast(n, m) /\ sel.provider = m

\* C3: select never returns a provider whose rate_limited_until is set and
\* later than the current time, at the start of the call or at its end, the
\* fallback to the full available list included.
C3_NeverOnCooldown ==
  (sel.called /\ sel.provider # NoProvider) =>
    \A t \in {sel.t1, now} :
      ~(states[sel.provider].rate_limited_until # NoTime
        /\ states[sel.provider].rate_limited_until > t)

\* C3 witness: the fallback is taken (every available provider was tried),
\* a provider is returned, and a tried enabled provider is on cooldown.
C3_Witness ==
  /\ sel.called
  /\ sel.provider # NoProvider
  /\ AvailableAt(sel.t1) \ TriedSet = {}
  /\ \E n \in TriedSet \cap Names :
       /\ definitions[n].enabled /\ states[n].available
       /\ states[n].rate_limited_until > now

\* C6: when the load check succeeds with total_active > high_load_threshold
\* and some candidate is local, select returns a local provider; when no
\* candidate is local, it returns what it returns without the load signal
\* (the candidate set is kept).
C6_HighLoadLocalPreference ==
  (sel.called /\ HighLoad /\ CandidateSet # {}) =>
    /\ LocalCandidates # {} => /\ sel.provider \in LocalCandidates
    /\ LocalCandidates = {} =>
         /\ sel.provider \in CandidateSet
         /\ sel.provider = select(definitions, states, sel.tried, sel.t1, sel.t2,
                                  NoLoad, cached_stats)

\* C6 witness: under high load a local provider is returned although a
\* non-local candidate has a strictly higher score.
C6_Witness ==
  /\ sel.called /\ HighLoad
  /\ sel.provider \in LocalCandidates
  /\ \E q \in CandidateSet \ LocalCandidates : ~ScoreAtLeast(sel.provider, q)

\* C7: select returns a scored candidate of maximal score, and among the
\* candidates of maximal score the one earliest in available-provider order.
C7_MaxScore ==
  (sel.called /\ sel.provider # NoProvider) =>
    /\ sel.provider \in ScoredSet
    /\ \A q \in ScoredSet : ScoreAtLeast(sel.provider, q)
    /\ \A q \in ScoredSet \ {sel.provider} :
         ScoreAtLeast(q, sel.provider) => ComesBefore(sel.provider, q)

\* C7 witness: the provider returned is not first in available order, its
\* score rests on a cached rate, another candidate has no runs recorded,
\* and a third ties with it.
C7_Witness ==
  /\ sel.called /\ sel.provider # NoProvider
  /\ \E q \in ScoredSet : ComesBefore(q, sel.provider) /\ ~ScoreAtLeast(q, sel.provider)
  /\ \E q \in ScoredSet \ {sel.provider} : ScoreAtLeast(q, sel.provider)
  /\ \E q \in ScoredSet : cached_stats[q].present /\ cached_stats[q].total_runs = 0
  /\ cached_stats[sel.provider].present /\ cached_stats[sel.provider].total_runs > 0

C36_SelectDespiteQAFailures ==
  /\ [](sel.called =>
          LET available == get_available_providers(definitions, states, sel.t1)
          IN /\ available # <<>> => sel.provider \in Range(available)
             /\ (available # <<>> /\ ~sel.load.ok) =>
                  sel.provider =
                    Head(SortedByScore(definitions, cached_stats,
                                       Candidates(available, sel.tried))))
  /\ [][(~sel.called /\ sel'.called /\ ~sel'.response.ok) =>
          /\ cached_stats' = cached_stats
          /\ sel'.provider = select(definitions, states, sel'.tried, sel'.t1, sel'.t2,
                                    sel'.load, cached_stats)]_vars

C36_Witness ==
  /\ sel.called
  /\ ~sel.load.ok
  /\ ~sel.response.ok
  /\ sel.provider # NoProvider
  /\ cached_stats # EmptyStats
  /\ sel.provider # select(definitions, states, sel.tried, sel.t1, sel.t2, sel.load,
                           EmptyStats)
  /\ definitions[sel.provider].type # "local"
  /\ get_local_providers(definitions, states, sel.t2) # <<>>

\* ========================================================== dispatch claims
\* The packet as compile built it: the first call starts from an empty heap.
AsCompiled ==
  LET out == compile(<<>>, 0, story, max_tasks, default_max_attempts, compiled[1].at)
  IN Deref(out.heap, task_packet)

\* C37: every generate call of an invocation receives the packet as compile
\* built it, with current_attempt 0 and no retry guidance, one packet per
\* call; and no step of the invocation writes to the heap the packet is in.
C37_PacketUntouched ==
  /\ [](task_packet # 0 =>
          LET packet == Deref(heap, task_packet)
          IN /\ Len(seen) = Len(runs)
             /\ packet = AsCompiled
             /\ packet.execution.current_attempt = 0
             /\ packet.inputs.retry_guidance = <<>>
             /\ \A i \in 1..Len(seen) : seen[i] = packet)
  /\ [][pc # "idle" => heap' = heap]_vars

C37_Witness ==
  /\ pc = "done"
  /\ task_packet # 0
  /\ Len(seen) >= 3
  /\ context.attempt = 2
  /\ Cardinality({runs[i].provider : i \in 1..Len(runs)}) >= 2
  /\ seen[Len(seen)].execution.current_attempt = 0

\* ========================================================== registry claims
Target == last_op.name
Before == last_op.before[Target]
After == states[Target]

AvailableNames ==
  {get_available_providers(definitions, states, now)[i] :
     i \in 1..Len(get_available_providers(definitions, states, now))}

\* C9 as claimed: mark_failure(name, is_rate_limit) on a known provider
\* records last_failure = now and adds exactly one to consecutive_failures,
\* rate limit or not; with is_rate_limit it sets rate_limited_until = now +
\* the configured cooldown, without it rate_limited_until is unchanged.
C9_AsClaimed ==
  (last_op.op = "mark_failure" /\ Target \in Names) =>
    /\ After.last_failure = last_op.at
    /\ After.consecutive_failures = Before.consecutive_failures + 1
    /\ last_op.is_rate_limit =>
         After.rate_limited_until = last_op.at + rate_limit_cooldown
    /\ ~last_op.is_rate_limit =>
         After.rate_limited_until = Before.rate_limited_until

C11_AsClaimed ==
  (last_op.op = "mark_rate_limited" /\ Target \in Names) =>
    /\ After.rate_limited_until =
         last_op.at + (IF last_op.cooldown = NoTime THEN rate_limit_cooldown
                       ELSE last_op.cooldown)
    /\ After.consecutive_failures = Before.consecutive_failures + 1

\* The clock has moved since every earlier mark_success / mark_failure of
\* the provider: both of its stamps are older than the call.
ClockAdvanced == Before.last_success < last_op.at /\ Before.last_failure < last_op.at

\* C12: after mark_success / mark_failure calls on one provider under a
\* strictly advancing clock, last_success is more recent than last_failure
\* exactly when the last call was mark_success, and last_failure is more
\* recent exactly when it was mark_failure.
C12_Monotonicity ==
  (last_op.op \in {"mark_success", "mark_failure"} /\ Target \in Names
     /\ ClockAdvanced) =>
    /\ (After.last_success > After.last_failure) <=> (last_op.op = "mark_success")
    /\ (After.last_failure > After.last_success) <=> (last_op.op = "mark_failure")

\* C12 witness: a mark_success that follows a later failure than success,
\* the clock having advanced before each call.
C12_Witness ==
  /\ last_op.op = "mark_success" /\ Target \in Names
  /\ ClockAdvanced
  /\ Before.last_success # NoTime
  /\ Before.last_failure > Before.last_success
  /\ After.last_success > After.last_failure

\* C13: mark_success, mark_failure and mark_rate_limited with a name that is
\* not in the registry change no provider's state, and get_definition and
\* get_state return none for such a name.
C13_UnknownName ==
  /\ (last_op.op \in {"mark_success", "mark_failure", "mark_rate_limited"}
        /\ Target \notin Names) => states = last_op.before
  /\ (last_op.op = "lookup" /\ Target \notin Names) =>
        /\ lookup.definition = NoDefinition
        /\ lookup.state = NoState
        /\ states = last_op.before

\* C13 witness: a rate-limited mark_failure on an unknown name, after a
\* lookup of an unknown name, in a registry whose states have changed.
C13_Witness ==
  /\ last_op.op = "mark_failure" /\ last_op.is_rate_limit
  /\ Target = UnknownName
  /\ lookup.name = UnknownName
  /\ states # LoadedStates

\* C14: reset_cooldowns clears rate_limited_until and consecutive_failures of
\* every state and leaves available, last_success and last_failure as they
\* were; right afterwards the available providers are exactly the enabled
\* ones whose available flag is true.
C14_ResetCooldowns ==
  last_op.op = "reset_cooldowns" =>
    \A n \in Names :
      /\ states[n].rate_limited_until = NoTime
      /\ states[n].consecutive_failures = 0
      /\ states[n].available = last_op.before[n].available
      /\ states[n].last_success = last_op.before[n].last_success
      /\ states[n].last_failure = last_op.before[n].last_failure
      /\ (definitions[n].enabled /\ states[n].available) <=> n \in AvailableNames

\* C14 witness: reset_cooldowns while an enabled provider has a running
\* cooldown, failures and both stamps set.
C14_Witness ==
  /\ last_op.op = "reset_cooldowns"
  /\ \E n \in Names :
       /\ definitions[n].enabled /\ states[n].available
       /\ last_op.before[n].rate_limited_until > now
       /\ last_op.before[n].consecutive_failures > 0
       /\ last_op.before[n].last_failure # NoTime

\* ========================================================== compiler claims
Criteria == _parse_acceptance_criteria(story.acceptance_criteria)
PacketAt(c, k) == Deref(heap, compiled[c].tasks[k])
CeilThirds(n) == (n + 2) \div 3

RECURSIVE Concat(_)
Concat(ss) == IF ss = <<>> THEN <<>> ELSE Head(ss) \o Concat(Tail(ss))

EmittedCriteria(c) ==
  Concat([k \in 1..Len(compiled[c].tasks) |-> PacketAt(c, k).goal.success_criteria])

\* C15 as claimed: for every story and every cap max_tasks_per_story >= 0,
\* compile returns between 0 and max_tasks_per_story packets, whatever the
\* number of parsed criteria.
C15_AsClaimed ==
  \A c \in 1..Len(compiled) :
    Len(compiled[c].tasks) >= 0 /\ Len(compiled[c].tasks) <= max_tasks

\* C16 as claimed: a story whose criteria text is empty or parses to zero
\* criteria compiles to zero packets; every emitted packet has at least one
\* success criterion.
C16_AsClaimed ==
  \A c \in 1..Len(compiled) :
    /\ Len(Criteria) = 0 => Len(compiled[c].tasks) = 0
    /\ \A k \in 1..Len(compiled[c].tasks) :
         Len(PacketAt(c, k).goal.success_criteria) >= 1

\* C17: with n <= 3 parsed criteria compile emits exactly one packet holding
\* all of them; with n > 3 it emits min(ceil(n/3), max_tasks_per_story)
\* packets whose criteria are, in emission order, the first consecutive
\* chunks of 3 of the parsed list (the last possibly shorter): together a
\* prefix of the parsed list, and all of it when the cap is not reached.
C17_Decomposition ==
  \A c \in 1..Len(compiled) :
    LET n == Len(Criteria)
        tasks == compiled[c].tasks
    IN /\ n <= 3 => /\ Len(tasks) = 1
                    /\ PacketAt(c, 1).goal.success_criteria = Criteria
       /\ n > 3 =>
            /\ Len(tasks) = Min(CeilThirds(n), max_tasks)
            /\ \A k \in 1..Len(tasks) :
                 PacketAt(c, k).goal.success_criteria =
                   SubSeq(Criteria, 3 * (k - 1) + 1, Min(3 * k, n))
            /\ EmittedCriteria(c) = SubSeq(Criteria, 1, Len(EmittedCriteria(c)))
            /\ CeilThirds(n) <= max_tasks => EmittedCriteria(c) = Criteria

\* C17 witness: seven criteria under a cap of two, so that two chunks are
\* emitted and the third is dropped.
C17_Witness ==
  /\ Len(Criteria) = 7
  /\ max_tasks = 2
  /\ Len(compiled) >= 1
  /\ Len(compiled[1].tasks) = 2
  /\ Len(EmittedCriteria(1)) = 6

\* C18: every packet returned by compile has current_attempt = 0,
\* max_attempts = the configured default_max_attempts, timeout_seconds = 300
\* and no retry guidance, so 0 = current_attempt <= max_attempts.
C18_FreshPackets ==
  \A c \in 1..Len(compiled) :
    \A k \in 1..Len(compiled[c].tasks) :
      /\ PacketAt(c, k).execution.current_attempt = 0
      /\ PacketAt(c, k).execution.max_attempts = default_max_attempts
      /\ PacketAt(c, k).execution.timeout_seconds = 300
      /\ PacketAt(c, k).inputs.retry_guidance = <<>>
      /\ PacketAt(c, k).execution.current_attempt
           <= PacketAt(c, k).execution.max_attempts

\* C18 witness: a compile that returned several packets, one of which has
\* since been enriched for a retry.
C18_Witness ==
  /\ Len(compiled) >= 1
  /\ Len(compiled[1].tasks) >= 2
  /\ default_max_attempts = 3
  /\ enrich.called
  /\ enrich.guidance # <<>>

WithoutTaskId(packet) == [packet EXCEPT !.identity.task_id = 0]
WithoutStamps(packet) ==
  [packet EXCEPT !.identity.task_id = 0, !.metadata.created_at = <<>>]

\* C19 as claimed: two compile calls with the same story and configuration,
\* at any two times, return lists of equal length whose corresponding packets
\* agree in every field except identity.task_id.
C19_AsClaimed ==
  Len(compiled) = 2 =>
    /\ Len(compiled[1].tasks) = Len(compiled[2].tasks)
    /\ \A k \in 1..Len(compiled[1].tasks) :
         WithoutTaskId(PacketAt(1, k)) = WithoutTaskId(PacketAt(2, k))

\* C19 amended: two compile calls with the same story and configuration
\* return lists of equal length whose corresponding packets agree in every
\* field except identity.task_id and metadata.created_at; created_at is the
\* time of the call, so it agrees exactly when the two calls read the same
\* clock value.
C19_Idempotence ==
  Len(compiled) = 2 =>
    /\ Len(compiled[1].tasks) = Len(compiled[2].tasks)
    /\ \A k \in 1..Len(compiled[1].tasks) :
         /\ WithoutStamps(PacketAt(1, k)) = WithoutStamps(PacketAt(2, k))
         /\ (PacketAt(1, k).metadata.created_at = PacketAt(2, k).metadata.created_at)
              <=> (compiled[1].at = compiled[2].at)

\* C19 witness: two compile calls at different times, each returning
\* several packets.
C19_Witness ==
  /\ Len(compiled) = 2
  /\ compiled[1].at < compiled[2].at
  /\ Len(compiled[2].tasks) >= 2

\* C20: enrich_for_retry(p, g, n) returns a packet equal to p in every field
\* except inputs.retry_guidance = g and execution.current_attempt = n, and p
\* with its inputs and execution groups is unchanged after the call.
C20_EnrichPurity ==
  enrich.called =>
    /\ Deref(heap, enrich.result) =
         [enrich.before EXCEPT !.inputs.retry_guidance = enrich.guidance,
                               !.execution.current_attempt = enrich.attempt]
    /\ Deref(heap, enrich.p) = enrich.before
    /\ enrich.result # enrich.p

\* C20 witness: the second packet of a story enriched with guidance for
\* attempt 2.
C20_Witness ==
  /\ enrich.called
  /\ enrich.guidance # <<>>
  /\ enrich.attempt = 2
  /\ Len(compiled) >= 1
  /\ Len(compiled[1].tasks) >= 2
  /\ enrich.p = compiled[1].tasks[2]
  /\ Deref(heap, enrich.result).inputs.retry_guidance = enrich.guidance

\* The numeric prefix of the claim: one or two decimal digits and then a dot,
\* all within the first three characters; 0 when the line has none, else the
\* position of the dot.
NumberedPrefix(line) ==
  IF \E k \in 1..2 : /\ Len(line) >= k + 1
                     /\ \A j \in 1..k : line[j] \in Digits
                     /\ line[k + 1] = "."
  THEN CHOOSE k \in 2..3 : /\ Len(line) >= k
                           /\ \A j \in 1..(k - 1) : line[j] \in Digits
                           /\ line[k] = "."
  ELSE 0

\* A line as the claim parses it, read in the code's favour: the bullet goes
\* first, the numeric prefix after it, and a line left empty is dropped.
ClaimedLine(line) ==
  LET unbulleted == IF line # <<>> /\ Head(line) \in Bullets
                    THEN Strip(Tail(line)) ELSE line
  IN IF NumberedPrefix(unbulleted) # 0
     THEN Strip(SubSeq(unbulleted, NumberedPrefix(unbulleted) + 1, Len(unbulleted)))
     ELSE unbulleted

ClaimedCriteria(text) ==
  LET lines == Split(Strip(text), Newline)
  IN SelectSeq([i \in 1..Len(lines) |-> ClaimedLine(Strip(lines[i]))],
               LAMBDA line : line # <<>>)

\* C38 as claimed: the criteria compile parsed from the story's text are, in
\* source order, the lines of the text with a leading bullet removed and a
\* numeric prefix removed only when the line begins with decimal digits
\* immediately followed by a dot within its first three characters; every
\* other line is kept as it is, trimmed.
C38_AsClaimed ==
  compiled # <<>> => Criteria = ClaimedCriteria(story.acceptance_criteria)

\* ========================================================== adapter claims
\* C21: every ArtifactBundle returned by generate of the Goose, Claude CLI and
\* Ollama adapters, on every path (exit with any return code, timeout,
\* exception), has execution_status = provider_failure when is_rate_limit is
\* true.
C21_BundleInvariant ==
  returned # NoResult =>
    /\ returned.is_rate_limit => returned.execution_status = "provider_failure"
    /\ returned \in Bundles

\* C21 witness: the Claude CLI exits with return code 0 and an output that
\* names a rate limit; the bundle is a rate-limited provider failure.
C21_Witness ==
  /\ call.adapter = "claude_cli"
  /\ call.path = "exit"
  /\ call.returncode = 0
  /\ _is_rate_limited(call.output)
  /\ returned # NoResult
  /\ returned.is_rate_limit

====
